---- MODULE Spec2Model ----
(***************************************************************************)
(* TLSWrap (src/tls_wrap.cc) with the SSLWrap mixin (src/node_crypto.cc):  *)
(* the pump between an underlying byte stream and a plaintext consumer.    *)
(*                                                                         *)
(* One connection.  Every action is one entry into the object from the     *)
(* event loop or from JS (a stream event, a method call, an immediate);    *)
(* the handlers are operators over the record of the object's fields, so   *)
(* that a handler that calls another (Cycle -> ClearIn, ClearOut, EncOut)  *)
(* is one atomic step, as it is on the single thread of the program.       *)
(*                                                                         *)
(* The session engine (OpenSSL) is a collaborator.  It is modelled by a    *)
(* small deterministic record layer over the two BIOs: ciphertext arrives  *)
(* in units "h" (a handshake fragment), "d" (an application-data record)   *)
(* and "c" (close_notify); the engine rejects application data that comes  *)
(* before the handshake is complete, and then stays failed.                *)
(***************************************************************************)
EXTENDS Integers, Sequences, FiniteSets, TLC

\* ---- bounds of the model ------------------------------------------------
\* Units read from the stream, writes submitted, renegotiations asked for,
\* and all of them together.
MaxRecv == 3
MaxWrites == 2
MaxReneg == 1
MaxIO == 4

\* ClientHello fragments the server engine (and the hello parser) needs.
HelloLen == 2
\* tls_wrap.h has 10; scaled so that a write can cover part of enc_out_.
kSimultaneousBufferCount == 2

\* Bytes of a ticket key name (16 in node_crypto.h, scaled).
TicketKeyNameLen == 2
\* Entries of an ALPN protocol list.
MaxProtos == 2
\* LoadSession and GetSessionCallback calls on one connection.
MaxSessOps == 4
\* SetTicketKeys, GetTicketKeys and ticket key callback calls on one context.
MaxKeyOps == 2

Alphabet == {"h", "d", "c"}
WriteResults == {"async", "sync", "err"}
Reactions == {"none", "destroy"}
Transient == {"none", "want_read", "want_write", "want_x509_lookup"}
Fatal == {"ssl", "syscall"}

VARIABLES
  \* TLSWrap / SSLWrap fields
  server, ssl_, started_, established_, eof_, shutdown_,
  write_size_, current_write_, current_empty_write_,
  write_callback_scheduled_, in_dowrite_, pending_cleartext_input_,
  session_callbacks_, awaiting_new_session_, cert_cb_, cert_cb_running_,
  hello_parser_, enc_in_, enc_out_, error_,
  \* the engine behind ssl_
  ssl,
  \* the event loop and the underlying stream
  stream_wr, immediate, listening, stream_shutdown, crashed,
  \* inputs used so far
  nrecv, nwrites, nreneg,
  \* what the application has observed
  obs,
  \* one call of a ticket key callback: its inputs and its result
  ticket,
  \* the server's ALPN list and one call of the ALPN selection callback
  alpn,
  \* SSLWrap::next_sess_ and the LoadSession / GetSessionCallback calls made
  sess,
  \* a SecureContext's ticket key parts and the calls made on it
  sc

\* The variables of the connection.
wrapvars == << server, ssl_, started_, established_, eof_, shutdown_,
           write_size_, current_write_, current_empty_write_,
           write_callback_scheduled_, in_dowrite_, pending_cleartext_input_,
           session_callbacks_, awaiting_new_session_, cert_cb_,
           cert_cb_running_, hello_parser_, enc_in_, enc_out_, error_, ssl,
           stream_wr, immediate, listening, stream_shutdown, crashed,
           nrecv, nwrites, nreneg, obs >>

vars == << wrapvars, ticket, alpn, sess, sc >>

Min(a, b) == IF a < b THEN a ELSE b
Sat(n) == Min(n + 1, 2)

\* The object as one record; wres and react are the answers the environment
\* gives during the current handler (the stream's Write result, what the
\* JS callbacks do).
Self(wres, react) ==
  [ server |-> server, ssl_ |-> ssl_, started_ |-> started_,
    established_ |-> established_, eof_ |-> eof_, shutdown_ |-> shutdown_,
    write_size_ |-> write_size_, current_write_ |-> current_write_,
    current_empty_write_ |-> current_empty_write_,
    write_callback_scheduled_ |-> write_callback_scheduled_,
    in_dowrite_ |-> in_dowrite_,
    pending_cleartext_input_ |-> pending_cleartext_input_,
    session_callbacks_ |-> session_callbacks_,
    awaiting_new_session_ |-> awaiting_new_session_,
    cert_cb_ |-> cert_cb_, cert_cb_running_ |-> cert_cb_running_,
    hello_parser_ |-> hello_parser_, enc_in_ |-> enc_in_,
    enc_out_ |-> enc_out_, error_ |-> error_, ssl |-> ssl,
    stream_wr |-> stream_wr, immediate |-> immediate,
    listening |-> listening, stream_shutdown |-> stream_shutdown,
    crashed |-> crashed, nrecv |-> nrecv, nwrites |-> nwrites,
    nreneg |-> nreneg,
    obs |-> obs, wres |-> wres, react |-> react, quiet |-> FALSE,
    trace |-> <<>> ]

Commit(r) ==
  /\ server' = r.server
  /\ ssl_' = r.ssl_
  /\ started_' = r.started_
  /\ established_' = r.established_
  /\ eof_' = r.eof_
  /\ shutdown_' = r.shutdown_
  /\ write_size_' = r.write_size_
  /\ current_write_' = r.current_write_
  /\ current_empty_write_' = r.current_empty_write_
  /\ write_callback_scheduled_' = r.write_callback_scheduled_
  /\ in_dowrite_' = r.in_dowrite_
  /\ pending_cleartext_input_' = r.pending_cleartext_input_
  /\ session_callbacks_' = r.session_callbacks_
  /\ awaiting_new_session_' = r.awaiting_new_session_
  /\ cert_cb_' = r.cert_cb_
  /\ cert_cb_running_' = r.cert_cb_running_
  /\ hello_parser_' = r.hello_parser_
  /\ enc_in_' = r.enc_in_
  /\ enc_out_' = r.enc_out_
  /\ error_' = r.error_
  /\ ssl' = r.ssl
  /\ stream_wr' = r.stream_wr
  /\ immediate' = r.immediate
  /\ listening' = r.listening
  /\ stream_shutdown' = r.stream_shutdown
  /\ crashed' = r.crashed
  /\ nrecv' = r.nrecv
  /\ nwrites' = r.nwrites
  /\ nreneg' = r.nreneg
  /\ obs' = r.obs
  /\ UNCHANGED << ticket, alpn, sess, sc >>

\* Ghost: s.trace lists what the handler running now has done so far, in
\* the order it did it; it is gone when the handler returns.
Log(s, what) == [s EXCEPT !.trace = Append(@, what)]

\* A failed CHECK aborts the process.
Abort(s) == [s EXCEPT !.crashed = TRUE]

\* ---- what the application sees -------------------------------------------
\* WriteWrap::Done(status): the completion callback of write w.
Done(s, w, status) ==
  [s EXCEPT !.obs.done = Append(@, <<w, status>>)]

\* InvokeQueued(status): completes the held write once a completion is due.
InvokeQueued(s, status) ==
  IF ~s.write_callback_scheduled_ THEN s
  ELSE IF s.current_write_ # 0
       THEN Done([s EXCEPT !.current_write_ = 0], s.current_write_, status)
       ELSE s

\* SSLWrap<Base>::DestroySSL: releases the engine (and the BIOs it owns).
FreedSSL == [hs |-> "freed", frag |-> 0, failed |-> FALSE,
             rshut |-> FALSE, sshut |-> FALSE, reneg |-> FALSE,
             held |-> 0]
\* SSLWrap<Base>::DestroySSL without the "if (!ssl_) return" test.
SSLWrapDestroySSL_NoGuard(s) ==
  [s EXCEPT !.ssl_ = FALSE, !.ssl = FreedSSL, !.obs.n_release = Sat(@)]

\* obs.n_release counts the releases (the external-memory adjustment that
\* goes with ssl_.reset()).
SSLWrapDestroySSL(s) ==
  IF ~s.ssl_ THEN s
  ELSE [s EXCEPT !.ssl_ = FALSE, !.ssl = FreedSSL, !.obs.n_release = Sat(@)]

\* DestroySSL that does not mark the held write as due for completion.
DestroySSL_NoSchedule(s) ==
  LET s2 == InvokeQueued(s, "UV_ECANCELED")
      s3 == SSLWrapDestroySSL(s2)
  IN [s3 EXCEPT !.enc_in_ = <<>>, !.enc_out_ = <<>>, !.listening = FALSE]

\* TLSWrap::DestroySSL
DestroySSL(s) ==
  LET s1 == [s EXCEPT !.write_callback_scheduled_ = TRUE]
      s2 == InvokeQueued(s1, "UV_ECANCELED")
      s3 == SSLWrapDestroySSL(s2)
  IN [s3 EXCEPT !.enc_in_ = <<>>, !.enc_out_ = <<>>, !.listening = FALSE]

\* What the JS callback running now does before it returns: nothing, or
\* destroy the connection (socket.destroy() -> _handle.destroySSL()).
React(s) == IF s.react = "destroy" THEN DestroySSL(s) ELSE s

\* EmitRead(nread): the plaintext consumer's onread; kind is "data" for
\* nread > 0, "eof" for UV_EOF and "err" for another negative nread.
EmitRead(s, kind) ==
  LET s1 == [s EXCEPT
               !.obs.n_eof = IF kind = "eof" THEN Sat(@) ELSE @,
               !.obs.data_after_eof = @ \/ (kind = "data" /\ s.eof_)]
  IN React(Log(s1, <<"EmitRead", kind>>))

\* MakeCallback(onerror) from ClearOut: an engine error of class cls.
OnError(s, cls) ==
  LET s1 == [s EXCEPT !.obs.n_onerror = Sat(@),
                      !.obs.onerror_cls = @ \cup {cls}]
  IN React(Log(s1, <<"onerror", 0>>))

\* ---- callbacks the engine makes into SSLWrap / TLSWrap ------------------
\* SSLInfoCallback that takes every SSL_CB_HANDSHAKE_DONE, also one
\* reported while a renegotiation is pending.
SSLInfoCallback_NoRenegTest(s, where) ==
  IF where = "done"
  THEN [s EXCEPT !.established_ = TRUE, !.obs.n_hsdone = Sat(@)]
  ELSE s

\* SSLInfoCallback that takes the connection out of Established when a
\* handshake starts.
SSLInfoCallback_StartResets(s, where) ==
  IF where = "start" THEN [s EXCEPT !.established_ = FALSE]
  ELSE IF where = "done" /\ ~s.ssl.reneg
  THEN [s EXCEPT !.established_ = TRUE, !.obs.n_hsdone = Sat(@)]
  ELSE s

\* where is "start" or "done"; obs.n_hsdone counts the onhandshakedone
\* calls.
SSLInfoCallback(s, where) ==
  IF where = "done" /\ ~s.ssl.reneg
  THEN [s EXCEPT !.established_ = TRUE, !.obs.n_hsdone = Sat(@)]
  ELSE s

NewSessionCallback(s) ==
  IF ~s.session_callbacks_ THEN s
  ELSE IF s.server THEN [s EXCEPT !.awaiting_new_session_ = TRUE]
  ELSE s

\* SSLCertCallback without the cert_cb_running_ test.
SSLCertCallback_NoRunningCheck(s) ==
  IF ~s.server THEN [s |-> s, ret |-> 1]
  ELSE IF ~s.cert_cb_ THEN [s |-> s, ret |-> 1]
  ELSE [s |-> [s EXCEPT !.cert_cb_running_ = TRUE,
                        !.obs.certcb_open = Sat(@)],
        ret |-> -1]

\* Returns the engine's view: 1 continue, -1 suspend (want X509 lookup).
\* oncertcb answers later, through CertCbDone.
SSLCertCallback(s) ==
  IF ~s.server THEN [s |-> s, ret |-> 1]
  ELSE IF ~s.cert_cb_ THEN [s |-> s, ret |-> 1]
  ELSE IF s.cert_cb_running_ THEN [s |-> s, ret |-> -1]
  ELSE [s |-> [s EXCEPT !.cert_cb_running_ = TRUE,
                        !.obs.certcb_open = Sat(@)],
        ret |-> -1]

\* ---- the session engine -------------------------------------------------
\* The engine writes one ciphertext unit into enc_out_: "hs" (a handshake
\* flight), "alert", "close" (close_notify) or the payload of write w.
Emit(s, unit) == [s EXCEPT !.enc_out_ = Append(@, unit)]
Consume(s) == [s EXCEPT !.enc_in_ = Tail(@)]

\* A record the engine cannot accept: it queues a fatal alert and fails.
FailSSL(s) ==
  [s |-> Emit([Consume(s) EXCEPT !.ssl.failed = TRUE], "alert"), err |-> "ssl"]
CloseNotify(s) ==
  [s |-> [Consume(s) EXCEPT !.ssl.rshut = TRUE], err |-> "zero_return"]

\* The handshake as far as the buffered input lets it go.  err is "none"
\* when the handshake is complete, else the class SSL_get_error reports.
\* The engine reports SSL_CB_HANDSHAKE_DONE.  Ghost: obs.hs_reports counts
\* the reports made while no renegotiation is pending, obs.hs_pending
\* notes a report made while one is.
ReportDone(s) ==
  SSLInfoCallback([s EXCEPT
                     !.obs.hs_reports = IF s.ssl.reneg THEN @ ELSE Sat(@),
                     !.obs.hs_pending = @ \/ s.ssl.reneg],
                  "done")

RECURSIVE Handshake(_)
Handshake(s) ==
  LET hs == s.ssl.hs
      in_ == s.enc_in_
  IN
  IF hs = "done" /\ ~s.ssl.reneg THEN [s |-> s, err |-> "none"]
  ELSE IF hs = "done"
    THEN \* a renegotiation was asked for: our ClientHello or HelloRequest
         \* goes out (a server reports start and done around the latter)
         LET s1 == Emit(SSLInfoCallback([s EXCEPT !.ssl.hs = "wait"],
                                        "start"), "hs")
         IN Handshake(IF s.server THEN ReportDone(s1) ELSE s1)
  ELSE IF hs = "start" /\ ~s.server
    THEN Handshake(Emit(SSLInfoCallback([s EXCEPT !.ssl.hs = "wait"],
                                        "start"), "hs"))
  ELSE IF hs = "cert"
    THEN LET r == SSLCertCallback(s)
         IN IF r.ret = 1
            THEN Handshake(Emit([r.s EXCEPT !.ssl.hs = "wait"], "hs"))
            ELSE [s |-> r.s, err |-> "want_x509_lookup"]
  ELSE IF in_ = <<>> THEN [s |-> s, err |-> "want_read"]
  ELSE IF Head(in_) = "c" THEN CloseNotify(s)
  ELSE IF Head(in_) # "h" THEN FailSSL(s)
  ELSE IF hs = "start"
    THEN IF s.ssl.frag + 1 < HelloLen
         THEN Handshake([Consume(s) EXCEPT !.ssl.frag = @ + 1])
         ELSE Handshake(SSLInfoCallback(
                [Consume(s) EXCEPT !.ssl.frag = 0, !.ssl.hs = "cert"],
                "start"))
  ELSE \* hs = "wait": the peer's last flight; ours follows and we are done
    LET s1 == Emit(Consume(s), "hs")
        s2 == NewSessionCallback(s1)
        s3 == ReportDone([s2 EXCEPT !.ssl.hs = "done",
                                    !.ssl.reneg = FALSE])
    IN [s |-> s3, err |-> "none"]

\* Application records after the handshake.  ret > 0: one record of
\* plaintext; 0: clean shutdown; -1: see err.
RECURSIVE ReadRecord(_)
ReadRecord(s) ==
  IF s.enc_in_ = <<>> THEN [s |-> s, ret |-> -1, err |-> "want_read"]
  ELSE LET k == Head(s.enc_in_) IN
    IF k = "d" THEN [s |-> Consume(s), ret |-> 1, err |-> "none"]
    ELSE IF k = "c" THEN [s |-> CloseNotify(s).s, ret |-> 0,
                          err |-> "zero_return"]
    ELSE \* the peer asks for a renegotiation: ours starts, our flight goes
         \* out and the peer's last flight is awaited
      LET s1 == Emit(SSLInfoCallback(
                       [Consume(s) EXCEPT !.ssl.hs = "wait",
                                          !.ssl.reneg = TRUE], "start"),
                     "hs")
          h == Handshake(s1)
      IN IF h.err = "none" THEN ReadRecord(h.s)
         ELSE [s |-> h.s, ret |-> IF h.err = "zero_return" THEN 0 ELSE -1,
               err |-> h.err]

\* A record the engine took in SSL_write and has not yet written to its
\* write BIO (ssl.held, 0 for none) goes out with its next call.
Flush(s) ==
  IF s.ssl.held = 0 THEN s
  ELSE Emit([s EXCEPT !.ssl.held = 0], s.ssl.held)

SSL_read(s) ==
  IF s.ssl.failed THEN [s |-> s, ret |-> -1, err |-> "syscall"]
  ELSE IF s.ssl.rshut THEN [s |-> s, ret |-> 0, err |-> "zero_return"]
  ELSE LET h == Handshake(Flush(s)) IN
    IF h.err = "none" THEN ReadRecord(h.s)
    ELSE [s |-> h.s, ret |-> IF h.err = "zero_return" THEN 0 ELSE -1,
          err |-> h.err]

\* The engine takes the whole payload or none of it.  s.quiet tells
\* whether it returns before the record is in enc_out_ (the case the
\* deferred completion of EncOut is written for).
SSL_write(s, data) ==
  IF s.ssl.failed THEN [s |-> s, ret |-> -1, err |-> "syscall"]
  ELSE IF s.ssl.sshut THEN [s |-> s, ret |-> -1, err |-> "ssl"]
  ELSE IF s.ssl.rshut /\ s.ssl.hs # "done"
    THEN [s |-> s, ret |-> -1, err |-> "zero_return"]
  ELSE LET h == Handshake(Flush(s)) IN
    IF h.err = "none"
    THEN [s |-> IF s.quiet THEN [h.s EXCEPT !.ssl.held = data]
                ELSE Emit(h.s, data),
          ret |-> 1, err |-> "none"]
    ELSE [s |-> h.s, ret |-> -1, err |-> h.err]

\* SSL_renegotiate: 1 and a new handshake is due at the next read or
\* write, or 0 when the engine cannot renegotiate now.
SSL_renegotiate(s) ==
  IF s.ssl.hs = "done" /\ ~s.ssl.failed /\ ~s.ssl.reneg
  THEN [s |-> [s EXCEPT !.ssl.reneg = TRUE], ret |-> 1]
  ELSE [s |-> s, ret |-> 0]

\* SSL_shutdown: 1 both directions closed, 0 our close_notify queued and
\* the peer's not seen yet, -1 otherwise.
SSL_shutdown(s) ==
  IF s.ssl.failed \/ s.ssl.hs # "done" THEN [s |-> s, ret |-> -1]
  ELSE IF ~s.ssl.sshut
    THEN [s |-> Emit([Flush(s) EXCEPT !.ssl.sshut = TRUE], "close"),
          ret |-> IF s.ssl.rshut THEN 1 ELSE 0]
  ELSE IF s.ssl.rshut THEN [s |-> s, ret |-> 1]
  ELSE IF s.enc_in_ # <<>> /\ Head(s.enc_in_) = "c"
    THEN [s |-> CloseNotify(s).s, ret |-> 1]
  ELSE [s |-> s, ret |-> -1]

\* GetSSLError that reports SSL_ERROR_WANT_READ as an error.
GetSSLError_WantReadIsError(s, err) ==
  IF ~s.ssl_ THEN "empty"
  ELSE IF err \in Transient \ {"want_read"} THEN "empty"
  ELSE err

\* GetSSLError: the value handed to JS is empty for the classes that only
\* ask to be called again (and when ssl_ is gone).
GetSSLError(s, err) ==
  IF ~s.ssl_ THEN "empty"
  ELSE IF err \in Transient THEN "empty"
  ELSE err

\* ---- the underlying stream and the event loop --------------------------
\* underlying_stream()->Write(): the request is held by the stream until it
\* completes ("async"), or it finished at once ("sync"), or was refused.
StreamWrite(s, kind) ==
  IF s.wres = "async" THEN [s EXCEPT !.stream_wr = Append(@, kind)] ELSE s

\* env()->SetImmediate(closure)
SetImmediate(s, closure) == [s EXCEPT !.immediate = Append(@, closure)]

\* ---- TLSWrap: the pump -------------------------------------------------

\* EncOut without the "write in progress" test.
EncOutBody_NoWriteSizeTest(s) ==
  IF s.hello_parser_ # "ended" THEN s
  ELSE IF s.awaiting_new_session_ THEN s
  ELSE
    LET s1 == IF s.established_ /\ s.current_write_ # 0
              THEN [s EXCEPT !.write_callback_scheduled_ = TRUE] ELSE s
    IN
    IF ~s1.ssl_ THEN s1
    ELSE IF s1.enc_out_ = <<>> THEN
      IF s1.pending_cleartext_input_ = 0
      THEN IF ~s1.in_dowrite_ THEN InvokeQueued(s1, "OK")
           ELSE SetImmediate(s1, "InvokeQueued")
      ELSE s1
    ELSE
      LET s2 == [s1 EXCEPT !.write_size_ =
                   Min(Len(s1.enc_out_), kSimultaneousBufferCount)]
          s3 == StreamWrite(s2, "enc")
      IN IF s.wres = "err" THEN InvokeQueued(s3, "UV_EPIPE")
         ELSE IF s.wres = "sync" THEN SetImmediate(s3, "AfterWrite")
         ELSE s3

EncOutBody(s) ==
  IF s.hello_parser_ # "ended" THEN s
  ELSE IF s.write_size_ # 0 THEN s
  ELSE IF s.awaiting_new_session_ THEN s
  ELSE
    LET s1 == IF s.established_ /\ s.current_write_ # 0
              THEN [s EXCEPT !.write_callback_scheduled_ = TRUE] ELSE s
    IN
    IF ~s1.ssl_ THEN s1
    ELSE IF s1.enc_out_ = <<>> THEN
      IF s1.pending_cleartext_input_ = 0
      THEN IF ~s1.in_dowrite_ THEN InvokeQueued(s1, "OK")
           ELSE SetImmediate(s1, "InvokeQueued")
      ELSE s1
    ELSE
      LET s2 == [s1 EXCEPT !.write_size_ =
                   Min(Len(s1.enc_out_), kSimultaneousBufferCount)]
          s3 == StreamWrite(s2, "enc")
      IN IF s.wres = "err" THEN InvokeQueued(s3, "UV_EPIPE")
         ELSE IF s.wres = "sync" THEN SetImmediate(s3, "AfterWrite")
         ELSE s3

\* TLSWrap::EncOut; each call is noted in the trace.
EncOut(s) == EncOutBody(Log(s, <<"EncOut", 0>>))

\* Ghost: the engine took the whole payload of write w, from DoWrite or
\* from a retry in ClearIn.
Accepted(s, w, via) == [s EXCEPT !.obs.accepted = Append(@, <<w, via>>)]

\* ClearIn that leaves pending_cleartext_input_ in place while it retries.
ClearIn_KeepPending(s) ==
  IF s.hello_parser_ # "ended" THEN s
  ELSE IF ~s.ssl_ THEN s
  ELSE IF s.pending_cleartext_input_ = 0 THEN s
  ELSE
    LET data == s.pending_cleartext_input_
        r == SSL_write(s, data)
    IN
    IF r.ret # -1 THEN Accepted(r.s, data, "ClearIn")
    ELSE IF GetSSLError(r.s, r.err) # "empty"
      THEN InvokeQueued([r.s EXCEPT !.write_callback_scheduled_ = TRUE,
                                    !.obs.fail_cls = @ \cup {r.err}],
                        "UV_EPROTO")
      ELSE [r.s EXCEPT !.pending_cleartext_input_ = data]

ClearInBody(s) ==
  IF s.hello_parser_ # "ended" THEN s
  ELSE IF ~s.ssl_ THEN s
  ELSE IF s.pending_cleartext_input_ = 0 THEN s
  ELSE
    LET data == s.pending_cleartext_input_
        r == SSL_write([s EXCEPT !.pending_cleartext_input_ = 0], data)
    IN
    IF r.ret # -1 THEN Accepted(r.s, data, "ClearIn")
    ELSE IF GetSSLError(r.s, r.err) # "empty"
      THEN InvokeQueued([r.s EXCEPT !.write_callback_scheduled_ = TRUE,
                                    !.obs.fail_cls = @ \cup {r.err}],
                        "UV_EPROTO")
      ELSE [r.s EXCEPT !.pending_cleartext_input_ = data]

\* TLSWrap::ClearIn; each call is noted in the trace.
ClearIn(s) == ClearInBody(Log(s, <<"ClearIn", 0>>))

\* The tail of ClearOut, after the read loop ended with read <= 0.
\* The end of ClearOut that calls onerror before it flushes the pending
\* ciphertext.
ClearOutTail_ErrorFirst(s, err) ==
  LET s1 == IF ~s.eof_ /\ s.ssl.rshut
            THEN EmitRead([s EXCEPT !.eof_ = TRUE], "eof") ELSE s
      arg == GetSSLError(s1, err)
  IN
  IF ~s1.ssl_ THEN s1
  ELSE IF err = "zero_return" /\ s1.eof_ THEN s1
  ELSE IF arg # "empty"
    THEN LET s2 == OnError(s1, err)
         IN IF s2.enc_out_ # <<>> THEN EncOut(s2) ELSE s2
    ELSE s1

ClearOutTail(s, err) ==
  LET s1 == IF ~s.eof_ /\ s.ssl.rshut
            THEN EmitRead([s EXCEPT !.eof_ = TRUE], "eof") ELSE s
      arg == GetSSLError(s1, err)
  IN
  IF ~s1.ssl_ THEN s1
  ELSE IF err = "zero_return" /\ s1.eof_ THEN s1
  ELSE IF arg # "empty"
    THEN OnError(IF s1.enc_out_ # <<>> THEN EncOut(s1) ELSE s1, err)
    ELSE s1

RECURSIVE ClearOutLoop(_)
\* The read loop without the "ssl_ == nullptr" test after EmitRead: the
\* next SSL_read is given the released engine.
ClearOutLoop_NoDestroyTest(s) ==
  LET r == SSL_read(s) IN
  IF r.ret > 0
  THEN LET s1 == EmitRead(r.s, "data")
       IN IF ~s1.ssl_ THEN Abort(s1) ELSE ClearOutLoop(s1)
  ELSE ClearOutTail(r.s, r.err)

ClearOutLoop(s) ==
  LET r == SSL_read(s) IN
  IF r.ret > 0
  THEN LET s1 == EmitRead(r.s, "data")
       IN IF ~s1.ssl_ THEN s1 ELSE ClearOutLoop(s1)
  ELSE ClearOutTail(r.s, r.err)

\* ClearOut without the "no reads after EOF" test.
ClearOut_NoEofCheck(s) ==
  IF s.hello_parser_ # "ended" THEN s
  ELSE IF ~s.ssl_ THEN s
  ELSE ClearOutLoop(s)

ClearOutBody(s) ==
  IF s.hello_parser_ # "ended" THEN s
  ELSE IF s.eof_ THEN s
  ELSE IF ~s.ssl_ THEN s
  ELSE ClearOutLoop(s)

\* TLSWrap::ClearOut; each call is noted in the trace.
ClearOut(s) == ClearOutBody(Log(s, <<"ClearOut", 0>>))

\* tls_wrap.h: ClearIn, ClearOut, EncOut, in this order.
Cycle(s) == EncOut(ClearOut(ClearIn(s)))

\* OnStreamAfterWrite that clears write_size_ first and ends with a whole
\* Cycle.
OnStreamAfterWrite_FullCycle(s, status) ==
  IF s.current_empty_write_ # 0
  THEN Done([s EXCEPT !.current_empty_write_ = 0],
            s.current_empty_write_, status)
  ELSE
    LET st == IF ~s.ssl_ THEN "UV_ECANCELED" ELSE status IN
    IF st # "OK"
    THEN IF s.shutdown_ THEN s ELSE InvokeQueued(s, st)
    ELSE
      LET s1 == Log([s EXCEPT !.enc_out_ =
                       SubSeq(@, s.write_size_ + 1, Len(@))],
                    <<"commit", s.write_size_>>)
          s2 == Log([s1 EXCEPT !.write_size_ = 0], <<"write_size_", 0>>)
      IN Cycle(ClearIn(s2))

\* The commit and the reset of write_size_ are noted in the trace.
OnStreamAfterWrite(s, status) ==
  IF s.current_empty_write_ # 0
  THEN Done([s EXCEPT !.current_empty_write_ = 0],
            s.current_empty_write_, status)
  ELSE
    LET st == IF ~s.ssl_ THEN "UV_ECANCELED" ELSE status IN
    IF st # "OK"
    THEN IF s.shutdown_ THEN s ELSE InvokeQueued(s, st)
    ELSE
      LET s1 == Log([s EXCEPT !.enc_out_ =
                       SubSeq(@, s.write_size_ + 1, Len(@))],
                    <<"commit", s.write_size_>>)
          s2 == ClearIn(s1)
      IN EncOut(Log([s2 EXCEPT !.write_size_ = 0], <<"write_size_", 0>>))

\* DoWrite past its ssl_ test.
DoWriteBody(s, w, length) ==
    LET s0 == IF length = 0 THEN ClearOut(s) ELSE s IN
    IF length = 0 /\ s0.enc_out_ = <<>>
    THEN IF s0.current_empty_write_ # 0 THEN Abort(s0)
         ELSE LET s1 == StreamWrite([s0 EXCEPT !.current_empty_write_ = w],
                                    "empty")
              IN IF s.wres # "async"
                 THEN SetImmediate(s1, "AfterEmptyWrite")
                 ELSE s1
    ELSE IF s0.current_write_ # 0 THEN Abort(s0)
    ELSE
      LET s1 == [s0 EXCEPT !.current_write_ = w] IN
      IF length = 0 THEN EncOut(s1)
      ELSE
        LET r == SSL_write(s1, w)
            fatal == r.ret = -1 /\ GetSSLError(r.s, r.err) # "empty"
        IN
        IF fatal
        THEN [r.s EXCEPT !.current_write_ = 0,
                         !.error_ = IF r.err \in Fatal THEN "ssl" ELSE @,
                         !.obs.fail_cls = @ \cup {r.err},
                         !.obs.rejected = @ \cup {<<w, "UV_EPROTO">>}]
        ELSE IF r.ret = -1 /\ r.s.pending_cleartext_input_ # 0
        THEN Abort(r.s)
        ELSE
          LET s2 == IF r.ret = -1
                    THEN [r.s EXCEPT !.pending_cleartext_input_ = w]
                    ELSE Accepted(r.s, w, "DoWrite")
              s3 == EncOut([s2 EXCEPT !.in_dowrite_ = TRUE])
          IN [s3 EXCEPT !.in_dowrite_ = FALSE]

\* DoWrite without the "Write after DestroySSL" test.
DoWrite_NoDestroyTest(s, w, length) == DoWriteBody(s, w, length)

\* DoWrite(w, bufs): length is the total length of bufs.  A refusal at the
\* call site is noted in obs.rejected.
DoWrite(s, w, length) ==
  IF ~s.ssl_
  THEN [s EXCEPT !.error_ = "Write after DestroySSL",
                 !.obs.rejected = @ \cup {<<w, "UV_EPROTO">>}]
  ELSE DoWriteBody(s, w, length)

\* SSLWrap<Base>::Renegotiate: throws (and changes nothing) unless
\* SSL_renegotiate returns 1.
Renegotiate(s) == SSL_renegotiate(s).s

\* ---- the ClientHello parser (node_crypto_clienthello) ------------------
\* End(): ends the parser and runs the end callback, OnClientHelloParseEnd.
ParserEnd(s) ==
  IF s.hello_parser_ = "ended" THEN s
  ELSE Cycle([s EXCEPT !.hello_parser_ = "ended"])

\* Parse(data, avail) over everything buffered in enc_in_: waits for a
\* whole ClientHello, then pauses and hands it to onclienthello; input that
\* is no ClientHello ends the parser.
ParserParse(s) ==
  IF s.hello_parser_ # "waiting" THEN s
  ELSE IF \E i \in 1..Min(Len(s.enc_in_), HelloLen) : s.enc_in_[i] # "h"
    THEN ParserEnd(s)
  ELSE IF Len(s.enc_in_) < HelloLen THEN s
  ELSE [s EXCEPT !.hello_parser_ = "paused"]

ParserStart(s) ==
  IF s.hello_parser_ # "ended" THEN s
  ELSE [s EXCEPT !.hello_parser_ = "waiting"]

\* OnStreamRead that commits what was read only when the parser has ended.
OnStreamReadData_NoCommit(s, k) ==
  IF ~s.ssl_ THEN Abort(s)
  ELSE IF s.hello_parser_ # "ended"
    THEN ParserParse([s EXCEPT !.nrecv = @ + 1])
    ELSE Cycle([s EXCEPT !.enc_in_ = Append(@, k), !.nrecv = @ + 1])

\* OnStreamRead(nread, buf) with nread >= 0: one unit k was read.
OnStreamReadData(s, k) ==
  IF ~s.ssl_ THEN Abort(s)
  ELSE
    LET s1 == [s EXCEPT !.enc_in_ = Append(@, k), !.nrecv = @ + 1] IN
    IF s1.hello_parser_ # "ended" THEN ParserParse(s1)
    ELSE Cycle(s1)

\* OnStreamRead(nread < 0) without the "ignore EOF if received
\* close_notify" test.
OnStreamReadErr_NoEofCheck(s, kind) ==
  LET s1 == ClearOut(s) IN
  EmitRead(IF kind = "eof" THEN [s1 EXCEPT !.eof_ = TRUE] ELSE s1, kind)

\* OnStreamRead(nread < 0) that reports to the consumer without running
\* ClearOut first.
OnStreamReadErr_NoClearOut(s, kind) ==
  IF kind = "eof" /\ s.eof_ THEN s
  ELSE EmitRead(IF kind = "eof" THEN [s EXCEPT !.eof_ = TRUE] ELSE s, kind)

\* OnStreamRead(nread, buf) with nread < 0: kind is "eof" or "err".
OnStreamReadErr(s, kind) ==
  LET s1 == ClearOut(s) IN
  IF kind = "eof" /\ s1.eof_ THEN s1
  ELSE EmitRead(IF kind = "eof" THEN [s1 EXCEPT !.eof_ = TRUE] ELSE s1, kind)

\* SSL_shutdown as DoShutdown calls it, noted in the trace with its result.
TryClose(s) ==
  LET r == SSL_shutdown(s) IN [s |-> Log(r.s, <<"SSL_shutdown", r.ret>>),
                               ret |-> r.ret]

\* DoShutdown that hands over to the stream before the alert is flushed.
DoShutdown_DelegatesFirst(s) ==
  LET r1 == IF s.ssl_ THEN TryClose(s) ELSE [s |-> s, ret |-> -1]
      s1 == IF s.ssl_ /\ r1.ret = 0 THEN TryClose(r1.s).s ELSE r1.s
      s2 == Log([s1 EXCEPT !.stream_shutdown = TRUE], <<"DoShutdown", 0>>)
      s3 == Log([s2 EXCEPT !.shutdown_ = TRUE], <<"shutdown_", 0>>)
  IN EncOut(s3)

DoShutdown(s) ==
  LET r1 == IF s.ssl_ THEN TryClose(s) ELSE [s |-> s, ret |-> -1]
      s1 == IF s.ssl_ /\ r1.ret = 0 THEN TryClose(r1.s).s ELSE r1.s
      s2 == Log([s1 EXCEPT !.shutdown_ = TRUE], <<"shutdown_", 0>>)
      s3 == EncOut(s2)
  IN Log([s3 EXCEPT !.stream_shutdown = TRUE], <<"DoShutdown", 0>>)

\* Start that reads (which makes the engine write its ClientHello) but
\* does not run EncOut.
Start_NoEncOut(s) == ClearOut([s EXCEPT !.started_ = TRUE])

\* TLSWrap::Start
Start(s) == EncOut(ClearOut([s EXCEPT !.started_ = TRUE]))

EnableSessionCallbacks(s) ==
  LET s1 == [s EXCEPT !.session_callbacks_ = TRUE] IN
  IF ~s.server THEN s1 ELSE ParserStart(s1)

\* EnableCertCb -> WaitForCertCb(OnClientHelloParseEnd, wrap)
EnableCertCb(s) == [s EXCEPT !.cert_cb_ = TRUE]

\* SSLWrap::NewSessionDone -> TLSWrap::NewSessionDoneCb
NewSessionDone(s) == Cycle([s EXCEPT !.awaiting_new_session_ = FALSE])

\* SSLWrap::CertCbDone; ctx is what JS left in sni_context: "none" (not an
\* object), "context" (a SecureContext whose certificate the engine takes),
\* "rejected" (a SecureContext whose certificate the engine refuses: the
\* call throws) or "other" (another object).
\* CertCbDone that reports the wrong object and then goes on as if none
\* had been given.
CertCbDone_FallsBack(s, ctx) ==
  IF ctx \in {"context", "rejected"} /\ ~s.ssl_ THEN Abort(s)
  ELSE IF ctx = "rejected" THEN s
  ELSE
    LET s1 == IF ctx = "other"
              THEN React([s EXCEPT !.obs.typeerr = TRUE]) ELSE s
    IN Cycle([s1 EXCEPT !.cert_cb_running_ = FALSE, !.cert_cb_ = FALSE,
                        !.obs.certcb_open = 0])

\* CertCbDone that leaves the continuation registered when it calls it.
CertCbDone_KeepsCb(s, ctx) ==
  IF ctx = "other"
  THEN React([s EXCEPT !.obs.typeerr = TRUE])
  ELSE IF ctx \in {"context", "rejected"} /\ ~s.ssl_ THEN Abort(s)
  ELSE IF ctx = "rejected" THEN s
  ELSE
    Cycle(Log([s EXCEPT !.cert_cb_running_ = FALSE,
                        !.obs.certcb_open = 0, !.obs.typeerr = FALSE],
              <<"cert_cb_", 0>>))

\* Ghost: obs.typeerr says that onerror(TypeError) was called for the
\* decision that is open.  The reset of cert_cb_running_ and cert_cb_ is
\* noted in the trace.
CertCbDone(s, ctx) ==
  IF ctx = "other"
  THEN React([s EXCEPT !.obs.typeerr = TRUE])  \* and nothing else
  ELSE IF ctx \in {"context", "rejected"} /\ ~s.ssl_ THEN Abort(s)
  ELSE IF ctx = "rejected" THEN s
  ELSE
    Cycle(Log([s EXCEPT !.cert_cb_running_ = FALSE, !.cert_cb_ = FALSE,
                        !.obs.certcb_open = 0, !.obs.typeerr = FALSE],
              <<"cert_cb_", 0>>))

\* ---- session ticket keys (SecureContext) --------------------------------
Bytes == {0, 1}
KeyNames == [1..TicketKeyNameLen -> Bytes]

\* memcmp(a, b, n): 0 iff the first n bytes agree.
memcmp(a, b, n) == IF \A i \in 1..n : a[i] = b[i] THEN 0 ELSE 1

\* The result of a ticket key callback: its return value, the key name
\* left in the name buffer, and whether the cipher context (ectx) and the
\* integrity context (hctx) were initialised.
TicketResult(ret, name, ectx, hctx) ==
  [ret |-> ret, name |-> name, ectx |-> ectx, hctx |-> hctx]

\* TicketCompatibilityCallback that treats a foreign key name as an error.
TicketCompatibilityCallback_MismatchFatal(sc_name, name, enc, rand_ok, evp_ok, hmac_ok) ==
  IF enc THEN
    IF ~rand_ok THEN TicketResult(-1, sc_name, FALSE, FALSE)
    ELSE IF ~evp_ok THEN TicketResult(-1, sc_name, FALSE, FALSE)
    ELSE IF ~hmac_ok THEN TicketResult(-1, sc_name, TRUE, FALSE)
    ELSE TicketResult(1, sc_name, TRUE, TRUE)
  ELSE IF memcmp(name, sc_name, TicketKeyNameLen) # 0
    THEN TicketResult(-1, name, FALSE, FALSE)
  ELSE IF ~evp_ok THEN TicketResult(-1, name, FALSE, FALSE)
  ELSE IF ~hmac_ok THEN TicketResult(-1, name, TRUE, FALSE)
  ELSE TicketResult(1, name, TRUE, TRUE)

\* SecureContext::TicketCompatibilityCallback.  sc_name is the configured
\* ticket_key_name_; rand_ok, evp_ok and hmac_ok say whether RAND_bytes,
\* EVP_{En,De}cryptInit_ex and HMAC_Init_ex succeed when called.
TicketCompatibilityCallback(sc_name, name, enc, rand_ok, evp_ok, hmac_ok) ==
  IF enc THEN
    IF ~rand_ok THEN TicketResult(-1, sc_name, FALSE, FALSE)
    ELSE IF ~evp_ok THEN TicketResult(-1, sc_name, FALSE, FALSE)
    ELSE IF ~hmac_ok THEN TicketResult(-1, sc_name, TRUE, FALSE)
    ELSE TicketResult(1, sc_name, TRUE, TRUE)
  ELSE IF memcmp(name, sc_name, TicketKeyNameLen) # 0
    THEN TicketResult(0, name, FALSE, FALSE)
  ELSE IF ~evp_ok THEN TicketResult(-1, name, FALSE, FALSE)
  ELSE IF ~hmac_ok THEN TicketResult(-1, name, TRUE, FALSE)
  ELSE TicketResult(1, name, TRUE, TRUE)

\* What the JS ticketkeycallback returned: r, whether the aes key has
\* kTicketPartSize bytes, whether name and iv have, and the name.
JsTicketAnswers ==
  [r : {-1, 0, 1, 2}, aes_ok : BOOLEAN, lens_ok : BOOLEAN, name : KeyNames]

\* SecureContext::TicketKeyCallback: the results of HMAC_Init_ex and
\* EVP_{En,De}cryptInit_ex are not looked at.
TicketKeyCallback(js, name, enc, evp_ok, hmac_ok) ==
  IF js.r < 0 THEN TicketResult(js.r, name, FALSE, FALSE)
  ELSE IF ~js.aes_ok THEN TicketResult(-1, name, FALSE, FALSE)
  ELSE IF enc /\ ~js.lens_ok THEN TicketResult(-1, name, FALSE, FALSE)
  ELSE TicketResult(js.r, IF enc THEN js.name ELSE name, evp_ok, hmac_ok)

\* No ticket callback has run.
NoTicket ==
  [ran |-> "none", sc_name |-> [i \in 1..TicketKeyNameLen |-> 0],
   name |-> [i \in 1..TicketKeyNameLen |-> 0], enc |-> FALSE,
   rand_ok |-> TRUE, evp_ok |-> TRUE, hmac_ok |-> TRUE,
   js |-> [r |-> 0, aes_ok |-> TRUE, lens_ok |-> TRUE,
           name |-> [i \in 1..TicketKeyNameLen |-> 0]],
   out |-> TicketResult(0, [i \in 1..TicketKeyNameLen |-> 0], FALSE, FALSE)]

\* ---- ALPN (SSLWrap) ------------------------------------------------------
Protos == {"a", "b", "c"}
ProtoLists(lo) == UNION {[1..n -> Protos] : n \in lo..MaxProtos}

\* SSL_select_next_proto(out, outlen, server, server_len, client,
\* client_len): for each protocol of its first list, in order, it looks
\* the protocol up in its second list; the first one found is negotiated.
\* With no overlap it hands out the first protocol of the second list.
RECURSIVE FindProto(_, _, _)
FindProto(p, client, j) ==
  IF j > Len(client) THEN FALSE
  ELSE IF client[j] = p THEN TRUE
  ELSE FindProto(p, client, j + 1)

RECURSIVE SelectFrom(_, _, _)
SelectFrom(srv, client, i) ==
  IF i > Len(srv)
  THEN [status |-> "OPENSSL_NPN_NO_OVERLAP",
        out |-> IF client = <<>> THEN "" ELSE client[1]]
  ELSE IF FindProto(srv[i], client, 1)
    THEN [status |-> "OPENSSL_NPN_NEGOTIATED", out |-> srv[i]]
  ELSE SelectFrom(srv, client, i + 1)

SSL_select_next_proto(srv, client) == SelectFrom(srv, client, 1)

\* SelectALPNCallback with the two lists the other way round.
SelectALPNCallback_ListsSwapped(alpn_protos, in) ==
  LET r == SSL_select_next_proto(in, alpn_protos) IN
  IF r.status = "OPENSSL_NPN_NEGOTIATED"
  THEN [ret |-> "SSL_TLSEXT_ERR_OK", out |-> r.out]
  ELSE [ret |-> "SSL_TLSEXT_ERR_NOACK", out |-> r.out]

\* SSLWrap<Base>::SelectALPNCallback: alpn_protos is the list stored by
\* SetALPNProtocols, in the list the client sent.
SelectALPNCallback(alpn_protos, in) ==
  LET r == SSL_select_next_proto(alpn_protos, in) IN
  IF r.status = "OPENSSL_NPN_NEGOTIATED"
  THEN [ret |-> "SSL_TLSEXT_ERR_OK", out |-> r.out]
  ELSE [ret |-> "SSL_TLSEXT_ERR_NOACK", out |-> r.out]

NoAlpn == [set |-> FALSE, ran |-> FALSE, protos |-> <<>>, in |-> <<>>,
           ret |-> "", out |-> ""]

\* ---- ticket keys of a SecureContext -----------------------------------
\* The three key parts, each TicketKeyNameLen bytes (16 in the code).
KeyParts == [ticket_key_name_ : KeyNames, ticket_key_hmac_ : KeyNames,
             ticket_key_aes_ : KeyNames]

\* A Buffer of n bytes.
Buffers(n) == [1..n -> Bytes]

\* SecureContext::GetTicketKeys: name, hmac, aes, in this order.
GetTicketKeys(k) ==
  k.ticket_key_name_ \o k.ticket_key_hmac_ \o k.ticket_key_aes_

\* SetTicketKeys that copies what it can before it looks at the length.
SetTicketKeys_CopiesFirst(k, buf) ==
  LET n == TicketKeyNameLen
      k1 == IF Len(buf) >= n
            THEN [k EXCEPT !.ticket_key_name_ = SubSeq(buf, 1, n)] ELSE k
  IN IF Len(buf) # 3 * n THEN [keys |-> k1, ok |-> FALSE]
     ELSE [keys |-> [ticket_key_name_ |-> SubSeq(buf, 1, n),
                     ticket_key_hmac_ |-> SubSeq(buf, n + 1, 2 * n),
                     ticket_key_aes_ |-> SubSeq(buf, 2 * n + 1, 3 * n)],
           ok |-> TRUE]

\* SecureContext::SetTicketKeys(buf): ok is FALSE when it throws.
SetTicketKeys(k, buf) ==
  LET n == TicketKeyNameLen IN
  IF Len(buf) # 3 * n THEN [keys |-> k, ok |-> FALSE]
  ELSE [keys |-> [ticket_key_name_ |-> SubSeq(buf, 1, n),
                  ticket_key_hmac_ |-> SubSeq(buf, n + 1, 2 * n),
                  ticket_key_aes_ |-> SubSeq(buf, 2 * n + 1, 3 * n)],
        ok |-> TRUE]

\* A context on which nothing was called yet.  keys are its key parts; op
\* is the last call made on it, with its argument and its result; n counts
\* the calls.  Ghost: conf is the last Buffer SetTicketKeys took (<<>>: none).
NoOp == [kind |-> "none", arg |-> <<>>, enc |-> FALSE, crypto_ok |-> TRUE,
         ok |-> TRUE, out |-> <<>>,
         res |-> TicketResult(0, <<>>, FALSE, FALSE)]
KeysOf(k) == [keys |-> k, conf |-> <<>>, op |-> NoOp, n |-> 0]
NoKeys ==
  KeysOf([ticket_key_name_ |-> [i \in 1..TicketKeyNameLen |-> 0],
          ticket_key_hmac_ |-> [i \in 1..TicketKeyNameLen |-> 0],
          ticket_key_aes_ |-> [i \in 1..TicketKeyNameLen |-> 0]])

\* ---- the session cache callbacks (SSLWrap) ----------------------------
\* What JS passes to loadSession(): no Buffer at all, or a Buffer holding
\* the serialisation of session "A" or "B", or bytes that are no session.
SessionBlobs == {"A", "B", "bad"}
LoadArgs == {"nobuf"} \cup SessionBlobs

NoSession == [id |-> 0, blob |-> "none"]

\* d2i_SSL_SESSION: a new session object (id tells the objects apart) or
\* nullptr.
d2i_SSL_SESSION(blob, id) ==
  IF blob = "bad" THEN NoSession ELSE [id |-> id, blob |-> blob]

\* SSLWrap::LoadSession: the new value of next_sess_.
LoadSession(next_sess_, arg, id) ==
  IF arg = "nobuf" THEN next_sess_ ELSE d2i_SSL_SESSION(arg, id)

\* GetSessionCallback that keeps next_sess_ after handing it out.
GetSessionCallback_Keeps(next_sess_) ==
  [ret |-> next_sess_, next_sess_ |-> next_sess_]

\* SSLWrap::GetSessionCallback: returns next_sess_.release().
GetSessionCallback(next_sess_) ==
  [ret |-> next_sess_, next_sess_ |-> NoSession]

\* No session call has been made.  calls lists the calls in order, as
\* <<"load", arg>> and <<"get", returned session>>.
NoSess == [next_sess_ |-> NoSession, calls |-> <<>>]

\* ---- the state machine -------------------------------------------------
InitSSLState == [hs |-> "start", frag |-> 0, failed |-> FALSE,
                 rshut |-> FALSE, sshut |-> FALSE, reneg |-> FALSE,
                 held |-> 0]
InitObs == [done |-> <<>>, rejected |-> {}, n_eof |-> 0,
            data_after_eof |-> FALSE, n_onerror |-> 0, onerror_cls |-> {},
            fail_cls |-> {}, certcb_open |-> 0, n_release |-> 0,
            accepted |-> <<>>, n_hsdone |-> 0, hs_reports |-> 0,
            hs_pending |-> FALSE, typeerr |-> FALSE]

\* TLSWrap::TLSWrap and InitSSL, for a server or a client.
WrapInit ==
  /\ server \in BOOLEAN
  /\ ssl_ = TRUE
  /\ started_ = FALSE
  /\ established_ = FALSE
  /\ eof_ = FALSE
  /\ shutdown_ = FALSE
  /\ write_size_ = 0
  /\ current_write_ = 0
  /\ current_empty_write_ = 0
  /\ write_callback_scheduled_ = FALSE
  /\ in_dowrite_ = FALSE
  /\ pending_cleartext_input_ = 0
  /\ session_callbacks_ = FALSE
  /\ awaiting_new_session_ = FALSE
  /\ cert_cb_ = FALSE
  /\ cert_cb_running_ = FALSE
  /\ hello_parser_ = "ended"
  /\ enc_in_ = <<>>
  /\ enc_out_ = <<>>
  /\ error_ = ""
  /\ ssl = InitSSLState
  /\ stream_wr = <<>>
  /\ immediate = <<>>
  /\ listening = TRUE
  /\ stream_shutdown = FALSE
  /\ crashed = FALSE
  /\ nrecv = 0
  /\ nwrites = 0
  /\ nreneg = 0
  /\ obs = InitObs

Init ==
  /\ WrapInit /\ ticket = NoTicket /\ alpn = NoAlpn
  /\ sess = NoSess /\ sc = NoKeys

\* The inputs used so far.
Inputs == nrecv + nwrites + nreneg

\* tls.connect() starts the client before it reads or writes.
StartAct ==
  /\ ~crashed /\ ~server /\ ~started_ /\ nrecv = 0 /\ nwrites = 0
  /\ \E wres \in WriteResults, react \in Reactions :
       Commit(Start(Self(wres, react)))

\* tls.TLSSocket configures a server's wrap right after Wrap(), before any
\* I/O.  (On a client neither flag changes anything the pump does: the
\* parser is not started and SSLCertCallback returns 1.)
Pristine ==
  server /\ nrecv = 0 /\ nwrites = 0 /\ ~stream_shutdown /\ ~eof_

EnableSessionCallbacksAct ==
  /\ ~crashed /\ Pristine /\ ssl_ /\ ~session_callbacks_
  /\ Commit(EnableSessionCallbacks(Self("async", "none")))

EnableCertCbAct ==
  /\ ~crashed /\ Pristine /\ ~cert_cb_
  /\ Commit(EnableCertCb(Self("async", "none")))

EndParserAct ==
  /\ ~crashed
  /\ \E wres \in WriteResults, react \in Reactions :
       Commit(ParserEnd(Self(wres, react)))

OnStreamReadAct ==
  /\ ~crashed /\ listening /\ nrecv < MaxRecv /\ Inputs < MaxIO
  /\ \E k \in Alphabet, wres \in WriteResults, react \in Reactions :
       Commit(OnStreamReadData(Self(wres, react), k))

OnStreamReadErrAct ==
  /\ ~crashed /\ listening
  /\ \E kind \in {"eof", "err"}, wres \in WriteResults, react \in Reactions :
       Commit(OnStreamReadErr(Self(wres, react), kind))

DoWriteAct ==
  /\ ~crashed /\ nwrites < MaxWrites /\ Inputs < MaxIO
  /\ \E length \in {0, 1}, wres \in WriteResults, react \in Reactions :
       Commit(DoWrite([Self(wres, react) EXCEPT !.nwrites = @ + 1],
                      nwrites + 1, length))

\* The underlying stream completes its oldest write request.
AfterWriteAct ==
  /\ ~crashed /\ stream_wr # <<>>
  /\ \E status \in {"OK", "UV_EPIPE"}, wres \in WriteResults :
       Commit(OnStreamAfterWrite(
                [Self(wres, "none") EXCEPT !.stream_wr = Tail(@)], status))

\* The event loop runs the oldest immediate.
RunImmediateAct ==
  /\ ~crashed /\ immediate # <<>>
  /\ \E wres \in WriteResults :
       LET s == [Self(wres, "none") EXCEPT !.immediate = Tail(@)]
       IN IF Head(immediate) \in {"AfterWrite", "AfterEmptyWrite"}
          THEN Commit(OnStreamAfterWrite(s, "OK"))
          ELSE Commit(InvokeQueued(s, "OK"))

NewSessionDoneAct ==
  /\ ~crashed /\ awaiting_new_session_
  /\ \E wres \in WriteResults, react \in Reactions :
       Commit(NewSessionDone(Self(wres, react)))

CertCbDoneAct ==
  /\ ~crashed /\ cert_cb_ /\ cert_cb_running_
  /\ \E ctx \in {"none", "context", "rejected", "other"},
        wres \in WriteResults, react \in Reactions :
       Commit(CertCbDone(Self(wres, react), ctx))

DoShutdownAct ==
  /\ ~crashed /\ ~stream_shutdown
  /\ \E wres \in WriteResults :
       Commit(DoShutdown(Self(wres, "none")))

DestroySSLAct ==
  /\ ~crashed
  /\ Commit(DestroySSL(Self("async", "none")))

\* renegotiate() from JS, which does not call it on a destroyed socket.
RenegotiateAct ==
  /\ ~crashed /\ ssl_ /\ nreneg < MaxReneg /\ Inputs < MaxIO
  /\ LET s == Self("async", "none")
         r == Renegotiate(s)
     IN Commit(IF r.ssl.reneg /\ ~s.ssl.reneg
               THEN [r EXCEPT !.nreneg = @ + 1] ELSE r)

Next ==
  \/ StartAct
  \/ EnableSessionCallbacksAct
  \/ EnableCertCbAct
  \/ EndParserAct
  \/ OnStreamReadAct
  \/ OnStreamReadErrAct
  \/ DoWriteAct
  \/ AfterWriteAct
  \/ RunImmediateAct
  \/ NewSessionDoneAct
  \/ CertCbDoneAct
  \/ DoShutdownAct
  \/ DestroySSLAct
  \/ RenegotiateAct

Spec == Init /\ [][Next]_vars

\* ---- the deferred completion of DoWrite ---------------------------------
\* DoWrite on an engine that may take a non-empty payload without having
\* written its record to enc_out_ when SSL_write returns (quiet): EncOut
\* then finds nothing to write and nothing pending, and defers
\* InvokeQueued(0).
DoWriteQuietAct ==
  /\ ~crashed /\ nwrites < MaxWrites /\ Inputs < MaxIO
  /\ \E length \in {0, 1}, quiet \in BOOLEAN, wres \in WriteResults,
        react \in Reactions :
       Commit(DoWrite([Self(wres, react) EXCEPT !.nwrites = @ + 1,
                                               !.quiet = quiet],
                      nwrites + 1, length))

\* A connection without session callbacks, certificate callback or
\* shutdown, on such an engine.
DeferNext ==
  \/ StartAct
  \/ OnStreamReadAct
  \/ DoWriteQuietAct
  \/ AfterWriteAct
  \/ RunImmediateAct
  \/ DestroySSLAct
  \/ RenegotiateAct

DeferSpec == Init /\ [][DeferNext]_vars

\* ---- the ticket key callbacks on their own ------------------------------
\* The engine calls a ticket key callback with a key name, for encryption
\* or decryption, on a context with some configured key name.
TicketInit ==
  /\ WrapInit /\ server /\ alpn = NoAlpn /\ sess = NoSess /\ sc = NoKeys
  /\ \E sc_name \in KeyNames, name \in KeyNames, enc \in BOOLEAN,
        rand_ok \in BOOLEAN, evp_ok \in BOOLEAN, hmac_ok \in BOOLEAN,
        js \in JsTicketAnswers :
       ticket = [NoTicket EXCEPT !.sc_name = sc_name, !.name = name,
                                 !.enc = enc, !.rand_ok = rand_ok,
                                 !.evp_ok = evp_ok, !.hmac_ok = hmac_ok,
                                 !.js = js]

TicketCompatibilityCallbackAct ==
  /\ ticket.ran = "none"
  /\ ticket' = [ticket EXCEPT
                  !.ran = "compat",
                  !.out = TicketCompatibilityCallback(
                            ticket.sc_name, ticket.name, ticket.enc,
                            ticket.rand_ok, ticket.evp_ok, ticket.hmac_ok)]
  /\ UNCHANGED << wrapvars, alpn, sess, sc >>

TicketKeyCallbackAct ==
  /\ ticket.ran = "none"
  /\ ticket' = [ticket EXCEPT
                  !.ran = "js",
                  !.out = TicketKeyCallback(ticket.js, ticket.name,
                            ticket.enc, ticket.evp_ok, ticket.hmac_ok)]
  /\ UNCHANGED << wrapvars, alpn, sess, sc >>

TicketNext == TicketCompatibilityCallbackAct \/ TicketKeyCallbackAct

TicketSpec == TicketInit /\ [][TicketNext]_vars

\* ---- the session cache callbacks on their own --------------------------
SessionInit ==
  /\ WrapInit /\ server /\ ticket = NoTicket /\ alpn = NoAlpn
  /\ sess = NoSess /\ sc = NoKeys

\* loadSession() from JS (onclienthello's answer).
LoadSessionAct ==
  /\ Len(sess.calls) < MaxSessOps
  /\ \E arg \in LoadArgs :
       sess' = [next_sess_ |-> LoadSession(sess.next_sess_, arg,
                                           Len(sess.calls) + 1),
                calls |-> Append(sess.calls, <<"load", arg>>)]
  /\ UNCHANGED << wrapvars, ticket, alpn, sc >>

\* The engine looks a session up.
GetSessionCallbackAct ==
  /\ Len(sess.calls) < MaxSessOps
  /\ LET r == GetSessionCallback(sess.next_sess_) IN
       sess' = [next_sess_ |-> r.next_sess_,
                calls |-> Append(sess.calls, <<"get", r.ret>>)]
  /\ UNCHANGED << wrapvars, ticket, alpn, sc >>

SessionNext == LoadSessionAct \/ GetSessionCallbackAct

SessionSpec == SessionInit /\ [][SessionNext]_vars

\* ---- the ticket keys of a SecureContext on their own --------------------
\* SecureContext::Init fills the three parts with random bytes: here every
\* part is all 0 or all 1.
KeysInit ==
  /\ WrapInit /\ server /\ ticket = NoTicket /\ alpn = NoAlpn
  /\ sess = NoSess
  /\ \E b \in Bytes :
       sc = KeysOf([ticket_key_name_ |-> [i \in 1..TicketKeyNameLen |-> b],
                    ticket_key_hmac_ |-> [i \in 1..TicketKeyNameLen |-> b],
                    ticket_key_aes_ |-> [i \in 1..TicketKeyNameLen |-> b]])

\* The Buffers given to setTicketKeys(): every one of the right length, and
\* one each that is empty, one byte short and one byte long.
SetArgs ==
  Buffers(3 * TicketKeyNameLen)
    \cup {[i \in 1..n |-> 1] : n \in {0, 3 * TicketKeyNameLen - 1,
                                      3 * TicketKeyNameLen + 1}}

SetTicketKeysAct ==
  /\ sc.n < MaxKeyOps
  /\ \E buf \in SetArgs :
       LET r == SetTicketKeys(sc.keys, buf) IN
       sc' = [keys |-> r.keys,
              conf |-> IF r.ok THEN buf ELSE sc.conf,
              op |-> [NoOp EXCEPT !.kind = "set", !.arg = buf, !.ok = r.ok],
              n |-> sc.n + 1]
  /\ UNCHANGED << wrapvars, ticket, alpn, sess >>

GetTicketKeysAct ==
  /\ sc.n < MaxKeyOps
  /\ sc' = [sc EXCEPT !.op = [NoOp EXCEPT !.kind = "get",
                                          !.out = GetTicketKeys(sc.keys)],
                      !.n = @ + 1]
  /\ UNCHANGED << wrapvars, ticket, alpn, sess >>

\* The engine calls the ticket key callback of the context: to encrypt, or
\* to decrypt a ticket that carries `name`; crypto_ok says whether
\* RAND_bytes, EVP_{En,De}cryptInit_ex and HMAC_Init_ex succeed.
KeysCallbackAct ==
  /\ sc.n < MaxKeyOps
  /\ \E name \in KeyNames, enc \in BOOLEAN, crypto_ok \in BOOLEAN :
       sc' = [sc EXCEPT
                !.op = [NoOp EXCEPT
                          !.kind = "cb", !.arg = name, !.enc = enc,
                          !.crypto_ok = crypto_ok,
                          !.res = TicketCompatibilityCallback(
                                    sc.keys.ticket_key_name_, name, enc,
                                    crypto_ok, crypto_ok, crypto_ok)],
                !.n = @ + 1]
  /\ UNCHANGED << wrapvars, ticket, alpn, sess >>

KeysNext == SetTicketKeysAct \/ GetTicketKeysAct \/ KeysCallbackAct

KeysSpec == KeysInit /\ [][KeysNext]_vars

\* ---- ALPN selection on its own ------------------------------------------
AlpnInit ==
  /\ WrapInit /\ server /\ ticket = NoTicket /\ alpn = NoAlpn
  /\ sess = NoSess /\ sc = NoKeys

\* SetALPNProtocols on a server: stores the list and registers the
\* selection callback.
SetALPNProtocolsAct ==
  /\ ~alpn.ran
  /\ \E protos \in ProtoLists(0) :
       alpn' = [alpn EXCEPT !.set = TRUE, !.protos = protos]
  /\ UNCHANGED << wrapvars, ticket, sess, sc >>

\* The engine calls the selection callback with the client's list.
SelectALPNCallbackAct ==
  /\ alpn.set /\ ~alpn.ran
  /\ \E in \in ProtoLists(1) :
       LET r == SelectALPNCallback(alpn.protos, in) IN
       alpn' = [alpn EXCEPT !.ran = TRUE, !.in = in,
                            !.ret = r.ret, !.out = r.out]
  /\ UNCHANGED << wrapvars, ticket, sess, sc >>

AlpnNext == SetALPNProtocolsAct \/ SelectALPNCallbackAct

AlpnSpec == AlpnInit /\ [][AlpnNext]_vars

\* ---- properties --------------------------------------------------------

\* C1: in every reachable state at most one write request issued to the
\* underlying stream is outstanding, counting the ciphertext writes of
\* EncOut and the zero-length pass-through writes of DoWrite.
C1_OneTransportWrite == Len(stream_wr) <= 1

\* C2 as stated: while the hello parser is active nothing has been
\* committed to the incoming ciphertext buffer.
C2_NothingCommittedWhileSniffing ==
  (ssl_ /\ hello_parser_ # "ended") => enc_in_ = <<>>

\* C2: a read that leaves the hello parser active appends exactly the unit
\* read to the end of enc_in_ and does not touch the engine or enc_out_;
\* as long as the engine has not been driven, enc_in_ holds every unit
\* read so far (none lost, none duplicated), which is what the engine
\* reads from the front of once the parser ends.
C2_BufferedInOrder ==
  /\ []((ssl_ /\ hello_parser_ # "ended" /\ ssl = InitSSLState)
          => Len(enc_in_) = nrecv)
  /\ [][(hello_parser_ # "ended" /\ hello_parser_' # "ended"
           /\ nrecv' = nrecv + 1)
          => (/\ \E k \in Alphabet : enc_in_' = Append(enc_in_, k)
              /\ ssl' = ssl
              /\ enc_out_' = enc_out_)]_vars

\* The parser ended after a whole ClientHello was buffered under it, and
\* the engine has read it.
C2_Witness ==
  /\ server /\ session_callbacks_ /\ hello_parser_ = "ended"
  /\ nrecv = HelloLen /\ nwrites = 0 /\ enc_in_ = <<>>
  /\ ssl.hs = "wait"

\* C3: while the hello parser is active no step drives the engine
\* (SSL_read, SSL_write) and none produces or writes ciphertext.
C3_EngineUntouchedWhileSniffing ==
  [][(hello_parser_ # "ended" /\ hello_parser_' # "ended" /\ ssl_')
       => (ssl' = ssl /\ enc_out_' = enc_out_
           /\ pending_cleartext_input_' = pending_cleartext_input_)]_vars

\* C4: UV_EOF is delivered to the plaintext consumer at most once.
C4_EofAtMostOnce == obs.n_eof <= 1

\* EOF was delivered because of a close_notify, and the stream is still
\* listened to, so that a transport EOF can follow.
C4_Witness == obs.n_eof = 1 /\ ssl.rshut /\ ssl_ /\ listening /\ eof_

\* C5: eof_ is never cleared, and no plaintext data is delivered once it
\* is set.
C5_NoDataAfterEof ==
  /\ [](~obs.data_after_eof)
  /\ [][eof_ => eof_']_vars

\* After EOF an application-data record arrived on an established
\* connection, and stays undelivered.
C5_Witness ==
  /\ eof_ /\ ssl_ /\ established_ /\ ~ssl.rshut /\ ~ssl.failed
  /\ enc_in_ # <<>> /\ Head(enc_in_) = "d"

\* C6: a fatal engine error met while reading is surfaced through onerror
\* exactly once per connection, however many times ClearOut runs later.
C6_OnErrorOnce == obs.n_onerror <= 1

C8_OneCertCbInFlight == obs.certcb_open <= 1

\* The engine was driven again while the decision was pending: the input
\* that came with it is still unread.
C8_Witness ==
  /\ server /\ cert_cb_ /\ cert_cb_running_ /\ obs.certcb_open = 1
  /\ ssl_ /\ ssl.hs = "cert" /\ enc_in_ # <<>>

\* C9: after DestroySSL no certificate continuation remains pending.
C9_NoCertCbAfterDestroy == ~ssl_ => ~(cert_cb_ /\ cert_cb_running_)

\* C10: a DestroySSL call that finds a held write completes it there and
\* then with UV_ECANCELED; no write is held once ssl_ is gone.
C10_HeldWriteCancelled ==
  /\ [](~ssl_ => current_write_ = 0)
  /\ [][(DestroySSLAct /\ current_write_ # 0)
          => (/\ current_write_' = 0
              /\ obs'.done = Append(obs.done,
                                    <<current_write_, "UV_ECANCELED">>))]_vars

\* A write was cancelled by DestroySSL before the handshake completed.
C10_Witness ==
  /\ ~ssl_ /\ ~established_
  /\ \E i \in 1..Len(obs.done) : obs.done[i][2] = "UV_ECANCELED"

\* C11: after the first DestroySSL the engine and both ciphertext buffers
\* are released and stay released; they are released once; a further
\* DestroySSL changes nothing and completes nothing.
C11_DestroyOnce ==
  /\ [](~ssl_ => (/\ ssl = FreedSSL /\ enc_in_ = <<>> /\ enc_out_ = <<>>
                  /\ ~listening /\ obs.n_release = 1))
  /\ [](ssl_ => obs.n_release = 0)
  /\ [][~ssl_ => ~ssl_']_vars
  /\ [][(~ssl_ /\ DestroySSLAct) => UNCHANGED vars]_vars

\* Destroyed with received data consumed and a transport write still
\* outstanding; DestroySSL stays callable there.
C11_Witness ==
  /\ ~ssl_ /\ obs.n_release = 1 /\ nrecv > 0 /\ stream_wr # <<>>
  /\ ENABLED DestroySSLAct

\* C12: once ssl_ is gone no step touches the engine or the ciphertext
\* buffers, issues a transport write, or delivers EOF, plaintext or a
\* successful write completion.
C12_NoOpAfterDestroy ==
  [][~ssl_ =>
       (/\ ssl' = ssl /\ enc_in_' = enc_in_ /\ enc_out_' = enc_out_
        /\ Len(stream_wr') <= Len(stream_wr)
        /\ obs'.n_eof = obs.n_eof
        /\ obs'.data_after_eof = obs.data_after_eof
        /\ \A i \in (Len(obs.done) + 1)..Len(obs'.done) :
             obs'.done[i][2] # "OK")]_vars

\* C13: a DoWrite made once ssl_ is gone returns UV_EPROTO with the error
\* text "Write after DestroySSL"; the write is not held, nothing is
\* buffered and nothing is written to the transport.
C13_WriteAfterDestroyFails ==
  [][(~ssl_ /\ nwrites' = nwrites + 1) =>
       (/\ obs'.rejected = obs.rejected \cup {<<nwrites + 1, "UV_EPROTO">>}
        /\ error_' = "Write after DestroySSL"
        /\ current_write_' = current_write_
        /\ current_empty_write_' = current_empty_write_
        /\ pending_cleartext_input_' = pending_cleartext_input_
        /\ stream_wr' = stream_wr /\ immediate' = immediate
        /\ enc_out_' = enc_out_ /\ obs'.done = obs.done
        /\ ~crashed')]_vars

\* A write was refused after the connection was destroyed.
C13_Witness ==
  /\ ~ssl_ /\ error_ = "Write after DestroySSL"
  /\ <<nwrites, "UV_EPROTO">> \in obs.rejected
  /\ current_write_ = 0 /\ current_empty_write_ = 0

\* C14: asked to decrypt a ticket whose key name is not the configured
\* one, TicketCompatibilityCallback returns 0 (discard the ticket), never
\* -1, and initialises neither context.
C14_ForeignTicketDiscarded ==
  (ticket.ran = "compat" /\ ~ticket.enc /\ ticket.name # ticket.sc_name)
    => (ticket.out.ret = 0 /\ ~ticket.out.ectx /\ ~ticket.out.hctx)

\* A foreign key name that differs from the configured one in its last
\* byte only was presented for decryption.
C14_Witness ==
  /\ ticket.ran = "compat" /\ ~ticket.enc
  /\ ticket.name[1] = ticket.sc_name[1]
  /\ ticket.name[TicketKeyNameLen] # ticket.sc_name[TicketKeyNameLen]
  /\ ticket.out.ret = 0

\* C15: a cryptographic failure inside a ticket key callback (IV
\* generation, cipher initialisation, integrity-context initialisation)
\* never yields a result that is fatal to the connection (a negative one).
C15_CryptoFailureNotFatal ==
  (/\ ticket.ran = "compat"
   /\ \/ ticket.enc /\ ~(ticket.rand_ok /\ ticket.evp_ok /\ ticket.hmac_ok)
      \/ ~ticket.enc /\ ticket.name = ticket.sc_name
           /\ ~(ticket.evp_ok /\ ticket.hmac_ok))
    => ticket.out.ret >= 0

\* The protocols two lists have in common, and the position of the first
\* entry of list a that occurs in list b.
Common(a, b) == {a[i] : i \in 1..Len(a)} \cap {b[j] : j \in 1..Len(b)}
FirstIn(a, b) ==
  CHOOSE i \in 1..Len(a) :
    /\ a[i] \in Common(a, b)
    /\ \A k \in 1..(i - 1) : a[k] \notin Common(a, b)

\* C16 as stated: the selection is the first protocol of the client's
\* list that the server's list has; NOACK when there is none.
C16_FirstCommonInClientOrder ==
  alpn.ran =>
    IF Common(alpn.in, alpn.protos) = {}
    THEN alpn.ret = "SSL_TLSEXT_ERR_NOACK"
    ELSE /\ alpn.ret = "SSL_TLSEXT_ERR_OK"
         /\ alpn.out = alpn.in[FirstIn(alpn.in, alpn.protos)]

\* C16: the selection is the first protocol of the server's list that the
\* client's list has; NOACK, never a fatal alert, when there is none.
C16_FirstCommonInServerOrder ==
  alpn.ran =>
    IF Common(alpn.protos, alpn.in) = {}
    THEN alpn.ret = "SSL_TLSEXT_ERR_NOACK"
    ELSE /\ alpn.ret = "SSL_TLSEXT_ERR_OK"
         /\ alpn.out = alpn.protos[FirstIn(alpn.protos, alpn.in)]

\* Two protocols in common, preferred in opposite orders.
C16_Witness ==
  /\ alpn.ran /\ Len(alpn.protos) = 2 /\ Len(alpn.in) = 2
  /\ alpn.protos[1] = alpn.in[2] /\ alpn.protos[2] = alpn.in[1]
  /\ alpn.protos[1] # alpn.protos[2]
  /\ alpn.out = alpn.protos[1]

\* C17: while the acknowledgement of a new session is awaited
\* (awaiting_new_session_), the connection does not become established.
C17_EstablishedHeldForAck ==
  [][(awaiting_new_session_' /\ ~established_) => ~established_']_vars

\* C18: the engine accepts the plaintext payloads in the order the writes
\* were submitted, each whole and at most once; a payload the engine could
\* not take yet is held in pending_cleartext_input_, not yet accepted, and
\* is the one a retry in ClearIn hands over.
C18_PayloadsInSubmissionOrder ==
  /\ [](\A i \in 1..Len(obs.accepted) :
          /\ obs.accepted[i][1] \in 1..nwrites
          /\ \A j \in 1..(i - 1) : obs.accepted[j][1] < obs.accepted[i][1])
  /\ [](pending_cleartext_input_ # 0 =>
          /\ pending_cleartext_input_ \in 1..nwrites
          /\ \A i \in 1..Len(obs.accepted) :
               obs.accepted[i][1] < pending_cleartext_input_)
  /\ [][\A i \in (Len(obs.accepted) + 1)..Len(obs'.accepted) :
          obs'.accepted[i][2] = "ClearIn" =>
            obs'.accepted[i][1] = pending_cleartext_input_]_vars

\* Both writes accepted, the first one held before the handshake finished
\* and retried by ClearIn.
C18_Witness ==
  obs.accepted = << <<1, "ClearIn">>, <<2, "DoWrite">> >>

\* C19: on a connection that is not destroyed, a non-empty
\* pending_cleartext_input_ belongs to the held write: current_write_ is
\* set whenever plaintext is pending.
C19_PendingBelongsToHeldWrite ==
  (ssl_ /\ ~crashed /\ pending_cleartext_input_ # 0) => current_write_ # 0

\* C20: a DoWrite made while a write is held (current_write_ set) on a
\* connection that is not destroyed is rejected at the call site: the process
\* goes on, the caller gets an error for the new write, and the new write
\* neither replaces the held one nor is held next to it.
C20_SecondWriteRejected ==
  [][(ssl_ /\ current_write_ # 0 /\ nwrites' = nwrites + 1) =>
       /\ ~crashed'
       /\ \E e \in obs'.rejected : e[1] = nwrites'
       /\ current_write_' \in {current_write_, 0}
       /\ current_empty_write_' # nwrites']_vars

\* C21: established_ is set, and onhandshakedone is called, exactly for the
\* handshake completions the engine reports while no renegotiation is
\* pending; a completion reported while one is pending does neither.
C21_DoneOnlyWithoutRenegotiation ==
  /\ obs.n_hsdone = obs.hs_reports
  /\ established_ <=> obs.hs_reports > 0

\* A server has reported SSL_CB_HANDSHAKE_DONE around its HelloRequest,
\* after the one notification of the first handshake.
C21_Witness ==
  server /\ established_ /\ obs.hs_pending /\ obs.n_hsdone = 1

\* C22: established_ is false at construction and, once set, true in every
\* later state.
C22_EstablishedMonotone ==
  /\ ~established_
  /\ [][established_ => established_']_vars

\* Established survived a renegotiation the peer asked for (none was asked
\* for locally), a shutdown and the destroy.
C22_Witness ==
  /\ established_ /\ nreneg = 0 /\ obs.n_hsdone = 2
  /\ shutdown_ /\ stream_shutdown /\ ~ssl_

\* C23: a deferred certificate decision resolved with an object that is not
\* a secure context is answered with onerror(TypeError) only: the engine is
\* not touched (no identity installed, nothing written), the continuation
\* stays suspended, and the handshake stays where it was suspended for as
\* long as the decision is not resolved again.
C23_WrongContextFailsOnly ==
  /\ []((obs.typeerr /\ ssl_) =>
          /\ cert_cb_ /\ cert_cb_running_
          /\ ssl.hs = "cert" /\ ~established_)
  /\ [][(~obs.typeerr /\ obs'.typeerr) =>
          /\ cert_cb_' /\ cert_cb_running_'
          /\ ssl_' => (ssl' = ssl /\ enc_out_' = enc_out_
                       /\ enc_in_' = enc_in_ /\ stream_wr' = stream_wr)]_vars

\* The type error was reported, the connection was left alone, and the next
\* record of the peer waits in front of the suspended handshake.
C23_Witness ==
  /\ obs.typeerr /\ ssl_ /\ ssl.hs = "cert"
  /\ enc_in_ # <<>> /\ Head(enc_in_) = "h"

\* C24: DoShutdown tries SSL_shutdown once, and a second time exactly when
\* the first try returned 0, then sets shutdown_, then runs EncOut once,
\* then calls the stream's DoShutdown; without ssl_ it makes no try and
\* does the rest.
ShutdownTail == << <<"shutdown_", 0>>, <<"EncOut", 0>>, <<"DoShutdown", 0>> >>
C24_ShutdownOrder ==
  /\ stream_shutdown => shutdown_
  /\ (~crashed /\ ~stream_shutdown) =>
       \A wres \in WriteResults :
         LET r == DoShutdown(Self(wres, "none"))
             log == r.trace
             n == Len(log) - 3
         IN /\ r.shutdown_ /\ r.stream_shutdown
            /\ n \in 0..2
            /\ SubSeq(log, n + 1, n + 3) = ShutdownTail
            /\ \A i \in 1..n : log[i][1] = "SSL_shutdown"
            /\ n = 0 <=> ~ssl_
            /\ n = 2 <=> (ssl_ /\ log[1][2] = 0)

\* DoShutdown has run: its first try queued our close_notify (and returned
\* 0, the peer's not being in), and the alert was offered to the transport
\* before the stream was shut down.
C24_Witness ==
  /\ stream_shutdown /\ shutdown_ /\ ssl_ /\ ssl.sshut /\ ~ssl.rshut
  /\ stream_wr # <<>> /\ write_size_ # 0 /\ enc_out_ = <<"close">>

\* C25: a client has begun its handshake as soon as it is constructed: no
\* live client is in a state where the engine has not started yet.
C25_HandshakeBegunOnConstruction ==
  (~server /\ ssl_ /\ ~crashed) => ssl.hs # "start"

\* C25, as the code has it: construction produces nothing; it is Start, a
\* call of the application, that makes the engine of a client that has not
\* begun yet write its first flight and offers it to the transport in one
\* transport write.
C25_HandshakeBegunOnStart ==
  /\ []((~server /\ ssl_ /\ ssl.hs = "start") =>
          (enc_out_ = <<>> /\ write_size_ = 0 /\ stream_wr = <<>>))
  /\ [][(~started_ /\ started_' /\ ssl_ /\ ssl.hs = "start") =>
          /\ ~server
          /\ ssl'.hs = "wait" /\ enc_out_' = <<"hs">> /\ write_size_' = 1]_vars

\* A started client, before any read or write: its first flight is with
\* the transport.
C25_Witness ==
  /\ ~server /\ started_ /\ Inputs = 0 /\ ssl_
  /\ enc_out_ = <<"hs">> /\ stream_wr = <<"enc">>

IsPrefix(a, b) == Len(a) <= Len(b) /\ SubSeq(b, 1, Len(a)) = a

\* What a call of OnStreamAfterWrite may do to the outgoing ciphertext
\* buffer: nothing, or, when the call confirms a ciphertext write with
\* success, take exactly the write_size_ units that write covered.
CommitsWhatWasWritten(r, confirms_enc_ok) ==
  \/ ~r.ssl_
  \/ IsPrefix(enc_out_, r.enc_out_)
  \/ /\ confirms_enc_ok /\ write_size_ \in 1..Len(enc_out_)
     /\ IsPrefix(SubSeq(enc_out_, write_size_ + 1, Len(enc_out_)), r.enc_out_)

\* C26: the outgoing ciphertext buffer is consumed only by the confirmation
\* of a ciphertext write that succeeded, and then by the write_size_ units
\* recorded when the write was issued.
C26_ConsumedOnConfirmation ==
  /\ (~crashed /\ stream_wr # <<>>) =>
       \A status \in {"OK", "UV_EPIPE"}, wres \in WriteResults :
         CommitsWhatWasWritten(
           OnStreamAfterWrite([Self(wres, "none") EXCEPT
                                 !.stream_wr = Tail(@)], status),
           status = "OK" /\ Head(stream_wr) = "enc")
  /\ (~crashed /\ immediate # <<>> /\ Head(immediate) # "InvokeQueued") =>
       \A wres \in WriteResults :
         CommitsWhatWasWritten(
           OnStreamAfterWrite([Self(wres, "none") EXCEPT
                                 !.immediate = Tail(@)], "OK"),
           Head(immediate) = "AfterWrite")

\* C27: every write has its completion callback invoked at most once, and
\* the completions come in the order in which the writes were submitted.
C27_CompletionsOnceInOrder ==
  \A i, j \in 1..Len(obs.done) :
    i < j => obs.done[i][1] < obs.done[j][1]

\* ---- the pump under a fair event loop ------------------------------------
\* libuv completes every write request it holds and runs every immediate.
LiveSpec ==
  Init /\ [][Next]_vars /\ WF_vars(AfterWriteAct) /\ WF_vars(RunImmediateAct)

\* C28: the pump does not deadlock: a held write whose payload the engine has
\* taken, on an established connection, is eventually completed (with
\* success or with an error) once the transport completes its writes.
C28_HeldWriteEventuallyCompleted ==
  \A w \in 1..MaxWrites :
    (/\ current_write_ = w /\ pending_cleartext_input_ = 0
     /\ \E i \in 1..Len(obs.accepted) : obs.accepted[i][1] = w
     /\ ssl_ /\ established_ /\ ssl.hs = "done" /\ ~crashed)
      ~> (current_write_ # w \/ crashed)

\* The state in which EncOut has something to write and may write it.
ReadyToWrite ==
  /\ hello_parser_ = "ended" /\ write_size_ = 0 /\ ~awaiting_new_session_
  /\ ssl_ /\ enc_out_ # <<>>

\* C29: EncOut issues a transport write if and only if the sniffer has ended,
\* no transport write is in flight, no new-session acknowledgment is awaited,
\* the engine is alive and ciphertext is pending; then it issues exactly one
\* request of at most kSimultaneousBufferCount regions and records a non-zero
\* write_size_; otherwise it issues none.  (Inside DoWrite or not.)
C29_WriteIffReady ==
  ~crashed =>
    \A wres \in WriteResults, indw \in BOOLEAN :
      LET s == [Self(wres, "none") EXCEPT !.in_dowrite_ = indw]
          r == EncOut(s)
      IN /\ ReadyToWrite =>
              /\ r.write_size_ \in 1..kSimultaneousBufferCount
              /\ r.write_size_ <= Len(enc_out_)
              /\ r.enc_out_ = enc_out_
              /\ r.stream_wr = IF wres = "async"
                               THEN Append(stream_wr, "enc") ELSE stream_wr
              /\ r.immediate = IF wres = "sync"
                               THEN Append(immediate, "AfterWrite")
                               ELSE immediate
         /\ ~ReadyToWrite =>
              /\ r.write_size_ = write_size_
              /\ r.stream_wr = stream_wr
              /\ r.enc_out_ = enc_out_
              /\ r.immediate \in {immediate, Append(immediate, "InvokeQueued")}

\* A write of kSimultaneousBufferCount regions is in flight while more
\* ciphertext waits behind it.
C29_Witness ==
  /\ stream_wr = <<"enc">> /\ write_size_ = kSimultaneousBufferCount
  /\ Len(enc_out_) > kSimultaneousBufferCount /\ ssl_ /\ ~crashed

\* C30: a write's completion callback is never invoked within the DoWrite
\* call that submitted it (a step that submits write w leaves no completion
\* of w behind).
C30_NeverCompletedInOwnDoWrite ==
  [][nwrites' # nwrites =>
       \A i \in 1..Len(obs.done') : obs.done'[i][1] # nwrites']_vars

\* A transport write of the pump can complete with success in this state.
CanConfirm == ~crashed /\ stream_wr # <<>> /\ current_empty_write_ = 0 /\ ssl_

\* What OnStreamAfterWrite does on a success, in the order it does it.
ConfirmTrace(wres) ==
  OnStreamAfterWrite([Self(wres, "none") EXCEPT !.stream_wr = Tail(@)],
                     "OK").trace

\* C31 as stated: advance enc_out_, clear write_size_, ClearIn, then a whole
\* cycle (ClearIn, ClearOut, EncOut).
C31_CommitResetRetryCycle ==
  CanConfirm =>
    \A wres \in WriteResults :
      LET log == ConfirmTrace(wres) IN
      /\ Len(log) >= 6
      /\ SubSeq(log, 1, 5) = << <<"commit", write_size_>>, <<"write_size_", 0>>,
                                <<"ClearIn", 0>>, <<"ClearIn", 0>>,
                                <<"ClearOut", 0>> >>
      /\ log[Len(log)] = <<"EncOut", 0>>

\* C31, amended: advance enc_out_ by write_size_, ClearIn, clear
\* write_size_, EncOut, and nothing else (no ClearOut).
C31_CommitRetryResetEncOut ==
  CanConfirm =>
    \A wres \in WriteResults :
      ConfirmTrace(wres) = << <<"commit", write_size_>>, <<"ClearIn", 0>>,
                              <<"write_size_", 0>>, <<"EncOut", 0>> >>

\* A write is in flight while a plaintext payload waits for its retry.
C31_Witness ==
  /\ CanConfirm /\ write_size_ # 0 /\ enc_out_ # <<>>
  /\ pending_cleartext_input_ # 0 /\ current_write_ # 0

\* ClearIn reaches SSL_write in this state; DoWrite of a non-empty payload
\* reaches it in that one.
RetryDue ==
  ~crashed /\ ssl_ /\ hello_parser_ = "ended" /\ pending_cleartext_input_ # 0
WriteDue == ~crashed /\ ssl_ /\ current_write_ = 0 /\ nwrites < MaxWrites

\* C32: an engine write that does not succeed.  Non-fatal: the payload is
\* kept in pending_cleartext_input_ and its write stays held, uncompleted.
\* Fatal: the payload is dropped and its write fails with UV_EPROTO, as
\* DoWrite's return value (write not held) or, from ClearIn, through the
\* completion callback.  (The transport accepts what EncOut gives it.)
C32_EngineWriteFailure ==
  \A wres \in {"async", "sync"} :
    /\ RetryDue =>
         LET s == Self(wres, "none")
             w == pending_cleartext_input_
             r == SSL_write([s EXCEPT !.pending_cleartext_input_ = 0], w)
             out == ClearIn(s)
         IN /\ (r.ret = -1 /\ r.err \in Transient) =>
                 /\ out.pending_cleartext_input_ = w
                 /\ out.current_write_ = current_write_
                 /\ out.obs.done = obs.done
            /\ (r.ret = -1 /\ r.err \notin Transient) =>
                 /\ out.pending_cleartext_input_ = 0
                 /\ out.current_write_ = 0
                 /\ out.obs.done = Append(obs.done, <<w, "UV_EPROTO">>)
    /\ WriteDue =>
         LET w == nwrites + 1
             s == [Self(wres, "none") EXCEPT !.nwrites = w]
             r == SSL_write([s EXCEPT !.current_write_ = w], w)
             out == DoWrite(s, w, 1)
         IN /\ (r.ret = -1 /\ r.err \in Transient) =>
                 /\ ~out.crashed
                 /\ out.pending_cleartext_input_ = w
                 /\ out.current_write_ = w
                 /\ out.obs.done = obs.done
                 /\ out.obs.rejected = obs.rejected
            /\ (r.ret = -1 /\ r.err \notin Transient) =>
                 /\ ~out.crashed
                 /\ out.pending_cleartext_input_ = pending_cleartext_input_
                 /\ out.current_write_ = 0
                 /\ out.obs.done = obs.done
                 /\ out.obs.rejected = obs.rejected \cup {<<w, "UV_EPROTO">>}

\* The calls of `what` noted in a trace.
Calls(log, what) == {i \in 1..Len(log) : log[i][1] = what}

\* C33: CertCbDone with a secure context the engine takes, or with none,
\* clears cert_cb_running_ and cert_cb_ before it calls the continuation,
\* calls the continuation (one Cycle) exactly once, and from then on the
\* certificate callback returns 1 without calling the application; unless
\* reading has ended, the handshake it resumes leaves the point where it
\* was suspended.
C33_ResolvedOnceAndCleared ==
  /\ cert_cb_running_ => cert_cb_
  /\ (server /\ ~cert_cb_) =>
       LET s == Self("async", "none")
       IN SSLCertCallback(s) = [s |-> s, ret |-> 1]
  /\ (~crashed /\ cert_cb_ /\ cert_cb_running_) =>
       \A ctx \in {"none", "context"}, wres \in WriteResults,
          react \in Reactions :
         (ctx = "context" => ssl_) =>
           LET out == CertCbDone(Self(wres, react), ctx)
               log == out.trace
           IN /\ ~out.cert_cb_ /\ ~out.cert_cb_running_
              /\ out.obs.certcb_open = 0
              /\ log[1] = <<"cert_cb_", 0>>
              /\ log[2] = <<"ClearIn", 0>> /\ log[3] = <<"ClearOut", 0>>
              /\ log[Len(log)] = <<"EncOut", 0>>
              /\ Calls(log, "ClearIn") = {2} /\ Calls(log, "ClearOut") = {3}
              /\ (out.ssl_ /\ ~eof_ /\ hello_parser_ = "ended") =>
                   out.ssl.hs # "cert"
              /\ SSLCertCallback(out) = [s |-> out, ret |-> 1]

\* The decision is open: the handshake is suspended in the certificate
\* callback and the client's next record waits.
C33_Witness ==
  /\ ~crashed /\ server /\ ssl_ /\ cert_cb_ /\ cert_cb_running_
  /\ ssl.hs = "cert" /\ obs.certcb_open = 1 /\ ~obs.typeerr
  /\ enc_in_ # <<>>

\* The LoadSession calls before call i that were given a Buffer, and the
\* lookups before call i.
LoadsBefore(i) ==
  {j \in 1..(i - 1) : sess.calls[j][1] = "load" /\ sess.calls[j][2] # "nobuf"}
GetsBefore(i) == {j \in 1..(i - 1) : sess.calls[j][1] = "get"}
Last(S) == CHOOSE j \in S : \A k \in S : k <= j

\* C34: a lookup returns what the most recent LoadSession (given a Buffer)
\* loaded, a session or nothing, unless an earlier lookup already took it;
\* with nothing loaded it returns none; no session object is returned twice.
C34_LookupReturnsLoadedOnce ==
  /\ \A i \in 1..Len(sess.calls) :
       sess.calls[i][1] = "get" =>
         LET ret == sess.calls[i][2]
             loads == LoadsBefore(i)
         IN IF loads = {} THEN ret = NoSession
            ELSE IF \E g \in GetsBefore(i) : g > Last(loads)
              THEN ret = NoSession
            ELSE /\ ret.blob = (IF sess.calls[Last(loads)][2] = "bad"
                                THEN "none" ELSE sess.calls[Last(loads)][2])
                 /\ ret = NoSession \/ ret.id = Last(loads)
  /\ \A i, j \in 1..Len(sess.calls) :
       (i < j /\ sess.calls[i][1] = "get" /\ sess.calls[j][1] = "get"
        /\ sess.calls[i][2] # NoSession) =>
         sess.calls[i][2].id # sess.calls[j][2].id

\* A session was loaded and looked up twice: the first lookup got it, the
\* second got none.
C34_Witness ==
  \E i \in 1..(Len(sess.calls) - 2) :
    /\ sess.calls[i] = <<"load", "A">>
    /\ sess.calls[i + 1][1] = "get" /\ sess.calls[i + 1][2].blob = "A"
    /\ sess.calls[i + 2] = <<"get", NoSession>>

\* The key name of the last Buffer SetTicketKeys took.
ConfName == SubSeq(sc.conf, 1, TicketKeyNameLen)

\* C35: once SetTicketKeys took a Buffer, GetTicketKeys returns that
\* Buffer, the encrypt path writes its first part as the key name and
\* returns success, and the decrypt path accepts exactly the tickets that
\* carry that name; SetTicketKeys takes a Buffer of the full length only and
\* otherwise leaves the key parts as they were.
C35_CallbackUsesConfiguredKeys ==
  /\ [](sc.conf # <<>> =>
          /\ sc.op.kind = "get" => sc.op.out = sc.conf
          /\ (sc.op.kind = "cb" /\ sc.op.enc) =>
               sc.op.res.ret = 1 /\ sc.op.res.name = ConfName
          /\ (sc.op.kind = "cb" /\ ~sc.op.enc) =>
               (sc.op.res.ret = 1 <=> sc.op.arg = ConfName))
  /\ [](sc.op.kind = "set" =>
          (sc.op.ok <=> Len(sc.op.arg) = 3 * TicketKeyNameLen))
  /\ [][(sc'.n # sc.n /\ sc'.op.kind = "set" /\ ~sc'.op.ok) =>
          sc'.keys = sc.keys]_vars

\* C35, amended: as above, but the encrypt path returns success, and the
\* decrypt path accepts a ticket that carries the configured name, if and
\* only if the IV generation and the initialisations of the cipher and the
\* integrity context succeed; a ticket with another name is discarded (0).
C35_CallbackUsesKeysIfCryptoSucceeds ==
  /\ [](sc.conf # <<>> =>
          /\ sc.op.kind = "get" => sc.op.out = sc.conf
          /\ (sc.op.kind = "cb" /\ sc.op.enc) =>
               /\ sc.op.res.name = ConfName
               /\ sc.op.res.ret = 1 <=> sc.op.crypto_ok
          /\ (sc.op.kind = "cb" /\ ~sc.op.enc) =>
               /\ sc.op.res.ret = 1 <=>
                    (sc.op.arg = ConfName /\ sc.op.crypto_ok)
               /\ sc.op.arg # ConfName => sc.op.res.ret = 0)
  /\ [](sc.op.kind = "set" =>
          (sc.op.ok <=> Len(sc.op.arg) = 3 * TicketKeyNameLen))
  /\ [][(sc'.n # sc.n /\ sc'.op.kind = "set" /\ ~sc'.op.ok) =>
          sc'.keys = sc.keys]_vars

\* New keys were set and a ticket that carries their name was accepted.
C35_Witness ==
  /\ sc.conf # <<>> /\ sc.n = 2
  /\ sc.keys.ticket_key_name_ # sc.keys.ticket_key_hmac_
  /\ sc.op.kind = "cb" /\ ~sc.op.enc /\ sc.op.arg = ConfName
  /\ sc.op.res.ret = 1

\* The positions of the trace log where the consumer was given kind.
Reads(log, kind) == {i \in 1..Len(log) : log[i] = <<"EmitRead", kind>>}

\* C36: when the transport reports a read error or EOF, OnStreamRead runs
\* ClearOut first, so every plaintext delivery of the handler precedes the
\* delivery of the error or EOF, and at that delivery the engine (alive,
\* ClientHello parsed, no EOF seen before) has no plaintext left to read; an
\* error is always
\* delivered, last; an EOF is delivered, last, unless eof_ is already set
\* (by a close-notify surfaced earlier or in this ClearOut), and then the
\* transport EOF is dropped: with eof_ set on entry nothing changes at all.
C36_PlaintextBeforeReadError ==
  (~crashed /\ listening) =>
    \A kind \in {"eof", "err"}, wres \in WriteResults, react \in Reactions :
      LET s == Self(wres, react)
          s1 == ClearOut(s)
          out == OnStreamReadErr(s, kind)
          log == out.trace
          dropped == kind = "eof" /\ s1.eof_
      IN /\ log # <<>> /\ log[1] = <<"ClearOut", 0>>
         /\ \A i \in Reads(log, "eof") \cup Reads(log, "err") :
              \A j \in Reads(log, "data") : j < i
         /\ ~dropped => /\ log[Len(log)] = <<"EmitRead", kind>>
                        /\ kind = "eof" => out.eof_
                        /\ (s1.ssl_ /\ s1.hello_parser_ = "ended" /\ ~s.eof_) =>
                             SSL_read(s1).ret <= 0
         /\ dropped => /\ out = s1
                       /\ Cardinality(Reads(log, "eof")) =
                            (IF s.eof_ THEN 0 ELSE 1)
         /\ (kind = "eof" /\ s.eof_) =>
              /\ [out EXCEPT !.trace = <<>>] = s
              /\ log = << <<"ClearOut", 0>> >>

\* The close-notify of the peer was surfaced as EOF, once, the transport is
\* still read, and its EOF is dropped.
C36_Witness ==
  /\ ~crashed /\ listening /\ ssl_ /\ eof_ /\ ssl.rshut /\ obs.n_eof = 1
  /\ OnStreamReadErr(Self("async", "none"), "eof").obs = obs

\* The first position of the trace log that holds what, or 0.
First(log, what) ==
  IF \E i \in 1..Len(log) : log[i] = what
  THEN CHOOSE i \in 1..Len(log) :
         /\ log[i] = what
         /\ \A j \in 1..(i - 1) : log[j] # what
  ELSE 0

\* OnStreamRead of record k on a connection past the ClientHello parser, in
\* which ClearOut (or the ClearIn before it) makes the engine fail or finds
\* it failed with ciphertext pending, and calls onerror: out is the result,
\* flushed tells whether EncOut was called after ClearOut began and before
\* onerror, issued whether a transport write was issued for enc_out_.
FatalReads(wres, react) ==
  { [k |-> k,
     out |-> OnStreamReadData(Self(wres, react), k)] : k \in Alphabet }

FlushedFirst(log) ==
  \E j \in 1..Len(log) :
    /\ log[j] = <<"EncOut", 0>>
    /\ First(log, <<"ClearOut", 0>>) < j
    /\ j < First(log, <<"onerror", 0>>)

FatalCase(r) ==
  /\ hello_parser_ = "ended" /\ ssl_
  /\ First(r.out.trace, <<"onerror", 0>>) > 0
  /\ (~ssl.failed \/ enc_out_ # <<>>)

Issued(r, wres) ==
  /\ r.out.write_size_ > 0
  /\ wres = "async" => Len(r.out.stream_wr) = Len(stream_wr) + 1
  /\ wres = "sync" => Len(r.out.immediate) > Len(immediate)

C38_ErrorCompletionNoSideEffect ==
  (~crashed /\ stream_wr # <<>>) =>
    \A wres \in WriteResults :
      LET s == [Self(wres, "none") EXCEPT !.stream_wr = Tail(@)]
          out == OnStreamAfterWrite(s, "UV_EPIPE")
          st == IF s.ssl_ THEN "UV_EPIPE" ELSE "UV_ECANCELED"
      IN /\ out.enc_out_ = s.enc_out_ /\ out.write_size_ = s.write_size_
         /\ out.pending_cleartext_input_ = s.pending_cleartext_input_
         /\ out.ssl = s.ssl /\ out.trace = <<>>
         /\ out.stream_wr = s.stream_wr /\ out.immediate = s.immediate
         /\ s.shutdown_ => out = s
         /\ (~s.shutdown_ /\ s.current_empty_write_ = 0
               /\ s.current_write_ # 0) =>
              /\ out.current_write_ = 0
              /\ out.obs.done = Append(s.obs.done, <<s.current_write_, st>>)

\* C39: the completion that DoWrite deferred to a later tick completes only
\* the write whose DoWrite scheduled it: when it runs, it does not report
\* success for a write whose payload is still held in
\* pending_cleartext_input_.
C39_DeferredCompletesOwnWrite ==
  [][(immediate # <<>> /\ Head(immediate) = "InvokeQueued"
        /\ immediate' = Tail(immediate)) =>
       \A w \in 1..MaxWrites :
         obs'.done = Append(obs.done, <<w, "OK">>) =>
           pending_cleartext_input_' # w]_vars

\* What one transport read can add to enc_in_: one record or two.
Chunks ==
  {<<a>> : a \in Alphabet} \cup {<<a, b>> : a, b \in Alphabet}

\* ClearOut on the connection as it is, with chunk ks committed to enc_in_
\* and a consumer that reacts as react says.
ClearOutOn(ks, wres, react) ==
  ClearOut([Self(wres, react) EXCEPT !.enc_in_ = @ \o ks])

\* C40: if the consumer destroys the connection from inside a read
\* delivery (plaintext or EOF) made by ClearOut, that delivery is the last
\* thing the invocation does: no further chunk, no EOF, no error, no EncOut;
\* the engine stays released, the buffers stay empty, nothing is written
\* and the process does not fault.
C40_DestroyInReadStopsClearOut ==
  (~crashed /\ ssl_) =>
    \A ks \in Chunks, wres \in WriteResults :
      LET out == ClearOutOn(ks, wres, "destroy")
          log == out.trace
      IN (Reads(log, "data") \cup Reads(log, "eof") # {}) =>
           /\ Len(log) = 2 /\ log[1] = <<"ClearOut", 0>>
           /\ log[2] \in {<<"EmitRead", "data">>, <<"EmitRead", "eof">>}
           /\ ~out.crashed
           /\ ~out.ssl_ /\ out.ssl = FreedSSL
           /\ out.enc_in_ = <<>> /\ out.enc_out_ = <<>>
           /\ out.obs.n_release = Sat(obs.n_release)
           /\ out.obs.n_onerror = obs.n_onerror
           /\ out.obs.n_eof =
                (IF log[2][2] = "eof" THEN Sat(obs.n_eof) ELSE obs.n_eof)
           /\ out.stream_wr = stream_wr /\ out.immediate = immediate
           /\ out.write_size_ = write_size_

\* An established connection reads two plaintext records at once: a
\* consumer that does nothing is given both, one that destroys the
\* connection in the first delivery is given that one only.
C40_Witness ==
  /\ ~crashed /\ ssl_ /\ established_ /\ ~eof_ /\ hello_parser_ = "ended"
  /\ Cardinality(Reads(ClearOutOn(<<"d", "d">>, "async", "none").trace,
                       "data")) = 2
  /\ Cardinality(Reads(ClearOutOn(<<"d", "d">>, "async", "destroy").trace,
                       "data")) = 1
  /\ Reads(ClearOutOn(<<"d", "c">>, "async", "none").trace, "eof") # {}
  /\ Reads(ClearOutOn(<<"d", "c">>, "async", "destroy").trace, "eof") = {}

====
